---- MODULE Spec2Model ----
(***************************************************************************)
(* Model of prevent-dangling-todos: the TodoChecker of                     *)
(* src/prevent_dangling_todos/prevent_todos.py.                            *)
(*                                                                         *)
(* Text is modelled as a sequence of symbols.  A symbol is a block of one  *)
(* or more characters that no pattern of the program splits: "TODO",       *)
(* "PROJ", "-", "1", " ", "noqa", ":" ...  A symbol is a word symbol (all  *)
(* its characters are \w) or a non-word symbol, so the regular             *)
(* expressions of _build_patterns, str.split, str.rstrip and the `in`      *)
(* test are computed on symbols exactly as the code computes them on the   *)
(* characters.                                                             *)
(***************************************************************************)
EXTENDS Integers, Sequences, FiniteSets, TLC

VARIABLES
    cfg,            \* the TodoChecker's configuration fields (set by __init__)
    fs,             \* the file system: path -> file
    exit_code,      \* TodoChecker.exit_code
    ticket_todos,   \* TodoChecker.ticket_todos
    pc,             \* "ready" after construction, "done" after the call
    call,           \* the call that ran: operation, arguments, environment
    ret,            \* check_files' return value (0 before the call)
    violations,     \* check_file's return value
    grep_results,   \* find_todos_with_grep's return value (a dict)
    out,            \* lines printed to standard output
    err,            \* lines printed to standard error
    checked,        \* paths check_file was called on, in call order
    grepped,        \* argument lists the batch search was invoked with
    listed,         \* number of times the repository listing was invoked
    history,        \* the calls made on the checker so far, with their results
    proc            \* the run of cli.main: its inputs, locals, position and end

vars == <<cfg, fs, exit_code, ticket_todos, pc, call, ret, violations,
          grep_results, out, err, checked, grepped, listed, history, proc>>

-----------------------------------------------------------------------------
(* Bounds *)

\* longest line of the line-level specification, in atoms
MaxLineLen == 3

\* longest file list supplied to check_files
MaxFiles == 4

\* most calls made on one TodoChecker
MaxCalls == 2

\* the longest output of `git ls-files`, in paths
MaxListing == 3

\* the longest branch name given to _extract_ticket_id, in atoms
MaxBranchLen == 3

-----------------------------------------------------------------------------
(* Symbols and text helpers *)

WordSyms == {"TODO", "FIXME", "PROJ", "OTH", "proj", "noqa", "NOQA",
             "FIX001", "FIX002", "FIX003", "FIX004", "X", "x", "XXX", "HACK",
             "a", "b", "c", "d", "e",
             "0", "1", "2", "3", "4", "5", "6", "7", "8", "9"}

Digits == <<"0", "1", "2", "3", "4", "5", "6", "7", "8", "9">>

DigitSyms == {Digits[i] : i \in 1..Len(Digits)}

WhiteSyms == {" ", "\n", "\t"}

IsWord(s) == s \in WordSyms

\* str.lower() on a symbol (re.IGNORECASE compares case-folded text)
Lower(s) ==
    CASE s = "NOQA" -> "noqa"
      [] s = "TODO" -> "todo"
      [] s = "FIXME" -> "fixme"
      [] s = "PROJ" -> "proj"
      [] s = "OTH" -> "oth"
      [] s = "X" -> "x"
      [] s = "FIX001" -> "fix001"
      [] s = "FIX002" -> "fix002"
      [] s = "FIX003" -> "fix003"
      [] s = "FIX004" -> "fix004"
      [] OTHER -> s

\* the text w occurs in s at position i
MatchAt(s, i, w) ==
    /\ i >= 1
    /\ i + Len(w) - 1 <= Len(s)
    /\ SubSeq(s, i, i + Len(w) - 1) = w

\* Python's `needle in s` on strings
Contains(s, needle) == \E i \in 1..(Len(s) + 1) : MatchAt(s, i, needle)

\* regex \b at the gap before position i of s (between s[i-1] and s[i])
WordBoundary(s, i) ==
    LET before == (i > 1) /\ IsWord(s[i - 1])
        after == (i <= Len(s)) /\ IsWord(s[i])
    IN before # after

RECURSIVE RStrip(_)
\* str.rstrip(): drop trailing whitespace
RStrip(s) ==
    IF s # <<>> /\ s[Len(s)] \in WhiteSyms
    THEN RStrip(SubSeq(s, 1, Len(s) - 1))
    ELSE s

RECURSIVE LStrip(_)
\* str.lstrip(): drop leading whitespace
LStrip(s) ==
    IF s # <<>> /\ s[1] \in WhiteSyms THEN LStrip(Tail(s)) ELSE s

RECURSIVE Concat(_)
\* concatenation of a sequence of texts
Concat(ss) == IF ss = <<>> THEN <<>> ELSE Head(ss) \o Concat(Tail(ss))

RECURSIVE SeqsUpTo(_, _)
\* all sequences over S of length at most n
SeqsUpTo(S, n) ==
    IF n = 0 THEN {<<>>}
    ELSE LET shorter == SeqsUpTo(S, n - 1)
         IN shorter \cup {Append(q, x) : q \in shorter, x \in S}

\* membership in a Python list
InList(x, l) == \E i \in 1..Len(l) : l[i] = x

-----------------------------------------------------------------------------
(* TodoChecker._build_patterns: the three matchers *)

\* the default comment prefixes of __init__
DefaultCommentPrefixes == <<<<"TODO">>, <<"FIXME">>, <<"XXX">>, <<"HACK">>>>

\* comment_pattern.search(line): \b(P1|P2|...)\b
CommentSearch(c, line) ==
    \E i \in 1..Len(line) : \E k \in 1..Len(c.comment_prefixes) :
        LET w == c.comment_prefixes[k] IN
        /\ MatchAt(line, i, w)
        /\ WordBoundary(line, i)
        /\ WordBoundary(line, i + Len(w))

\* jira_pattern is None: no prefixes configured
JiraPatternIsNone(c) == c.jira_prefixes = <<>>

\* a mutant of JiraSearch: only the first configured prefix is tried
JiraSearchFirstPrefix(c, line) ==
    \E i \in 1..Len(line) : \E k \in 1..Len(c.jira_prefixes) :
        LET p == c.jira_prefixes[k] IN
        /\ k = 1
        /\ MatchAt(line, i, p \o <<"-">>)
        /\ i + Len(p) + 1 <= Len(line)
        /\ line[i + Len(p) + 1] \in DigitSyms

\* jira_pattern.search(line): (P1|P2|...)-\d+ , no word boundaries
JiraSearch(c, line) ==
    \E i \in 1..Len(line) : \E k \in 1..Len(c.jira_prefixes) :
        LET p == c.jira_prefixes[k] IN
        /\ MatchAt(line, i, p \o <<"-">>)
        /\ i + Len(p) + 1 <= Len(line)
        /\ line[i + Len(p) + 1] \in DigitSyms

FixCodes == {"fix001", "fix002", "fix003", "fix004"}

\* noqa_pattern.search(line): noqa\s*$|noqa.*(?:FIX001|FIX002|FIX003|FIX004),
\* re.IGNORECASE; $ matches at the end and before a final newline
NoqaSearch(line) ==
    \E i \in 1..Len(line) :
        /\ Lower(line[i]) = "noqa"
        /\ \/ \A j \in (i + 1)..Len(line) : line[j] \in WhiteSyms
           \/ \E j \in (i + 1)..Len(line) :
                /\ Lower(line[j]) \in FixCodes
                /\ \A m \in (i + 1)..(j - 1) : line[m] # "\n"

-----------------------------------------------------------------------------
(* Files *)

\* a regular file with the given lines (each line without its newline)
File(lines) ==
    [exists |-> TRUE, lines |-> lines, read_error |-> FALSE, read_ok |-> 0]

\* a path that is no file (os.path.isfile is False)
MissingFile ==
    [exists |-> FALSE, lines |-> <<>>, read_error |-> FALSE, read_ok |-> 0]

\* a file whose read raises after n lines were delivered (n = 0: open fails)
BrokenFile(lines, n) ==
    [exists |-> TRUE, lines |-> lines, read_error |-> TRUE, read_ok |-> n]

\* the lines the iteration `for line in f` delivers, each with its newline
ReadLines(f) ==
    LET n == IF f.read_error THEN f.read_ok ELSE Len(f.lines)
    IN [i \in 1..n |-> f.lines[i] \o <<"\n">>]

-----------------------------------------------------------------------------
(* TodoChecker.check_file *)

\* a mutant of CheckLine: the ticket branch is taken before the violation test
CheckLineTicketFirst(c, path, n, line, acc) ==
    IF ~CommentSearch(c, line) THEN acc
    ELSE IF c.current_ticket_id # <<>> /\ Contains(line, c.current_ticket_id)
    THEN [acc EXCEPT !.ticket_todos = Append(@, <<path, n, RStrip(line)>>)]
    ELSE IF ~NoqaSearch(line)
    THEN [acc EXCEPT !.violations = Append(@, <<n, RStrip(line)>>)]
    ELSE acc

\* a mutant of CheckLine: a TODO of the current ticket is recorded only once
CheckLineOnce(c, path, n, line, acc) ==
    IF CommentSearch(c, line)
    THEN IF JiraPatternIsNone(c) \/ ~JiraSearch(c, line)
         THEN IF ~NoqaSearch(line)
              THEN [acc EXCEPT !.violations = Append(@, <<n, RStrip(line)>>)]
              ELSE acc
         ELSE IF /\ ~JiraPatternIsNone(c)
                 /\ c.current_ticket_id # <<>>
                 /\ Contains(line, c.current_ticket_id)
                 /\ ~InList(<<path, n, RStrip(line)>>, acc.ticket_todos)
              THEN [acc EXCEPT
                      !.ticket_todos = Append(@, <<path, n, RStrip(line)>>)]
              ELSE acc
    ELSE acc

\* a mutant of CheckLine: lines are recorded without a current ticket too
CheckLineAnyTicket(c, path, n, line, acc) ==
    IF CommentSearch(c, line)
    THEN IF JiraPatternIsNone(c) \/ ~JiraSearch(c, line)
         THEN IF ~NoqaSearch(line)
              THEN [acc EXCEPT !.violations = Append(@, <<n, RStrip(line)>>)]
              ELSE acc
         ELSE IF /\ ~JiraPatternIsNone(c)
                 /\ Contains(line, c.current_ticket_id)
              THEN [acc EXCEPT
                      !.ticket_todos = Append(@, <<path, n, RStrip(line)>>)]
              ELSE acc
    ELSE acc

\* the body of check_file's loop for line number n
CheckLine(c, path, n, line, acc) ==
    IF CommentSearch(c, line)
    THEN IF JiraPatternIsNone(c) \/ ~JiraSearch(c, line)
         THEN IF ~NoqaSearch(line)
              THEN [acc EXCEPT !.violations = Append(@, <<n, RStrip(line)>>)]
              ELSE acc
         ELSE IF /\ ~JiraPatternIsNone(c)
                 /\ c.current_ticket_id # <<>>
                 /\ Contains(line, c.current_ticket_id)
              THEN [acc EXCEPT
                      !.ticket_todos = Append(@, <<path, n, RStrip(line)>>)]
              ELSE acc
    ELSE acc

RECURSIVE CheckFileLoopZeroBased(_, _, _, _, _)
\* a mutant of CheckFileLoop: lines are numbered from 0
CheckFileLoopZeroBased(c, path, lines, n, acc) ==
    IF n > Len(lines) THEN acc
    ELSE CheckFileLoopZeroBased(c, path, lines, n + 1,
                                CheckLine(c, path, n - 1, lines[n], acc))

RECURSIVE CheckFileLoop(_, _, _, _, _)
\* `for line_num, line in enumerate(f, 1)`
CheckFileLoop(c, path, lines, n, acc) ==
    IF n > Len(lines) THEN acc
    ELSE CheckFileLoop(c, path, lines, n + 1,
                       CheckLine(c, path, n, lines[n], acc))

\* the warning check_file prints to stderr when reading raises
ReadWarning(path) == [kind |-> "read_warning", path |-> path]

\* a mutant of CheckFileOp: a missing file is opened, and open() raising is
\* reported like any other read error
CheckFileOpOpensMissing(c, files, path, todos) ==
    LET f == files[path]
        start == [violations |-> <<>>, ticket_todos |-> todos]
        acc == CheckFileLoop(c, path, ReadLines(f), 1, start)
    IN [violations |-> acc.violations,
        ticket_todos |-> acc.ticket_todos,
        err |-> IF f.read_error \/ ~f.exists THEN <<ReadWarning(path)>>
                ELSE <<>>]

\* check_file(file_path) on a checker whose ticket_todos is todos:
\* the returned violations, the new ticket_todos, what was printed to stderr
CheckFileOp(c, files, path, todos) ==
    LET f == files[path]
        start == [violations |-> <<>>, ticket_todos |-> todos]
    IN IF ~f.exists
       THEN [violations |-> <<>>, ticket_todos |-> todos, err |-> <<>>]
       ELSE LET acc == CheckFileLoop(c, path, ReadLines(f), 1, start)
            IN [violations |-> acc.violations,
                ticket_todos |-> acc.ticket_todos,
                err |-> IF f.read_error THEN <<ReadWarning(path)>> ELSE <<>>]

-----------------------------------------------------------------------------
(* TodoChecker.find_todos_with_grep *)

RECURSIVE NumStr(_)
\* the decimal text of a line number, as grep -n prints it
NumStr(n) ==
    IF n < 10 THEN <<Digits[n + 1]>>
    ELSE NumStr(n \div 10) \o <<Digits[(n % 10) + 1]>>

\* the value of one digit symbol
DigitVal(d) == CHOOSE v \in 0..9 : Digits[v + 1] = d

RECURSIVE DigitsVal(_)
\* the value of a text of digits
DigitsVal(t) ==
    IF t = <<>> THEN 0
    ELSE 10 * DigitsVal(SubSeq(t, 1, Len(t) - 1)) + DigitVal(t[Len(t)])

\* int(text) raises ValueError: text is not an optionally padded number
IntRaises(t) ==
    LET core == RStrip(LStrip(t))
    IN core = <<>> \/ \E i \in 1..Len(core) : core[i] \notin DigitSyms

\* int(text) when it does not raise
IntOf(t) == DigitsVal(RStrip(LStrip(t)))

\* position of the first ":" of t at or after position from, 0 when none
FirstColon(t, from) ==
    LET hits == {i \in from..Len(t) : t[i] = ":"}
    IN IF hits = {} THEN 0 ELSE CHOOSE i \in hits : \A j \in hits : i <= j

\* line.split(":", 2): at most three parts
SplitTwo(t) ==
    LET c1 == FirstColon(t, 1)
        c2 == IF c1 = 0 THEN 0 ELSE FirstColon(t, c1 + 1)
    IN IF c1 = 0 THEN <<t>>
       ELSE IF c2 = 0
       THEN <<SubSeq(t, 1, c1 - 1), SubSeq(t, c1 + 1, Len(t))>>
       ELSE <<SubSeq(t, 1, c1 - 1), SubSeq(t, c1 + 1, c2 - 1),
              SubSeq(t, c2 + 1, Len(t))>>

\* grep selects the line: \b\(P1\|P2\|...\)\b over the comment prefixes
GrepSelects(c, line) ==
    \E i \in 1..Len(line) : \E k \in 1..Len(c.comment_prefixes) :
        LET w == c.comment_prefixes[k] IN
        /\ MatchAt(line, i, w)
        /\ WordBoundary(line, i)
        /\ WordBoundary(line, i + Len(w))

\* the lines grep reads from a file before it fails, without newlines
GrepReads(f) ==
    IF ~f.exists THEN <<>>
    ELSE IF f.read_error THEN SubSeq(f.lines, 1, f.read_ok)
    ELSE f.lines

RECURSIVE GrepFileOutput(_, _, _, _)
\* grep -Hn output for one file from line n on: path:line_number:content
GrepFileOutput(c, path, lines, n) ==
    IF n > Len(lines) THEN <<>>
    ELSE (IF GrepSelects(c, lines[n])
          THEN <<path \o <<":">> \o NumStr(n) \o <<":">> \o lines[n]>>
          ELSE <<>>)
         \o GrepFileOutput(c, path, lines, n + 1)

RECURSIVE GrepOutput(_, _, _)
\* grep's standard output over the file arguments, in argument order
GrepOutput(c, files, paths) ==
    IF paths = <<>> THEN <<>>
    ELSE GrepFileOutput(c, Head(paths), GrepReads(files[Head(paths)]), 1)
         \o GrepOutput(c, files, Tail(paths))

\* grep's exit status: 2 on any error, else 0 when a line was selected, else 1
GrepReturnCode(c, files, paths) ==
    IF \E i \in 1..Len(paths) :
          ~files[paths[i]].exists \/ files[paths[i]].read_error
    THEN 2
    ELSE IF GrepOutput(c, files, paths) # <<>> THEN 0 ELSE 1

\* result.stdout.strip().split("\n"): strip() trims the ends of the output
StdoutLines(lines) ==
    IF lines = <<>> THEN <<>>
    ELSE [i \in 1..Len(lines) |->
            LET l1 == IF i = 1 THEN LStrip(lines[i]) ELSE lines[i]
            IN IF i = Len(lines) THEN RStrip(l1) ELSE l1]

\* todos_by_file[file_path].append(v), creating the list when absent
DictAppend(d, k, v) ==
    IF k \in DOMAIN d THEN [d EXCEPT ![k] = Append(@, v)]
    ELSE [x \in (DOMAIN d) \cup {k} |-> IF x = k THEN <<v>> ELSE d[x]]

\* a mutant of GrepParseLine: a TODO of the current ticket is a violation too
GrepParseLineBoth(c, line, acc) ==
    LET parts == SplitTwo(line) IN
    IF line = <<>> \/ Len(parts) < 3 THEN acc
    ELSE IF IntRaises(parts[2]) THEN acc
    ELSE LET file_path == parts[1]
             line_num == IntOf(parts[2])
             content == parts[3]
         IN IF JiraPatternIsNone(c) \/ ~JiraSearch(c, content)
            THEN IF ~NoqaSearch(content)
                 THEN [acc EXCEPT !.todos_by_file =
                         DictAppend(@, file_path, <<line_num, RStrip(content)>>)]
                 ELSE acc
            ELSE IF /\ ~JiraPatternIsNone(c)
                    /\ c.current_ticket_id # <<>>
                    /\ Contains(content, c.current_ticket_id)
                 THEN [acc EXCEPT
                         !.todos_by_file =
                            DictAppend(@, file_path,
                                       <<line_num, RStrip(content)>>),
                         !.ticket_todos =
                            Append(@, <<file_path, line_num, RStrip(content)>>)]
                 ELSE acc

\* the body of the parse loop for one line of grep output
GrepParseLine(c, line, acc) ==
    LET parts == SplitTwo(line) IN
    IF line = <<>> \/ Len(parts) < 3 THEN acc
    ELSE IF IntRaises(parts[2]) THEN acc
    ELSE LET file_path == parts[1]
             line_num == IntOf(parts[2])
             content == parts[3]
         IN IF JiraPatternIsNone(c) \/ ~JiraSearch(c, content)
            THEN IF ~NoqaSearch(content)
                 THEN [acc EXCEPT !.todos_by_file =
                         DictAppend(@, file_path, <<line_num, RStrip(content)>>)]
                 ELSE acc
            ELSE IF /\ ~JiraPatternIsNone(c)
                    /\ c.current_ticket_id # <<>>
                    /\ Contains(content, c.current_ticket_id)
                 THEN [acc EXCEPT !.ticket_todos =
                         Append(@, <<file_path, line_num, RStrip(content)>>)]
                 ELSE acc

RECURSIVE GrepParseLoop(_, _, _, _)
\* `for line in result.stdout.strip().split("\n")`
GrepParseLoop(c, lines, n, acc) ==
    IF n > Len(lines) THEN acc
    ELSE GrepParseLoop(c, lines, n + 1, GrepParseLine(c, lines[n], acc))

\* the empty dict
EmptyDict == [x \in {} |-> <<>>]

\* a mutant of FindTodosWithGrepOp: the output is parsed whatever grep's
\* exit status
FindTodosWithGrepOpAnyStatus(c, files, paths, todos, grep_runs) ==
    LET start == [todos_by_file |-> EmptyDict, ticket_todos |-> todos]
    IN IF paths = <<>> THEN start
       ELSE IF ~grep_runs THEN start
       ELSE LET stdout == GrepOutput(c, files, paths)
            IN IF stdout # <<>>
               THEN GrepParseLoop(c, StdoutLines(stdout), 1, start)
               ELSE start

\* find_todos_with_grep(file_paths) on a checker whose ticket_todos is todos;
\* grep_runs is FALSE when subprocess.run raises (timeout, no grep, OS error)
FindTodosWithGrepOp(c, files, paths, todos, grep_runs) ==
    LET start == [todos_by_file |-> EmptyDict, ticket_todos |-> todos]
    IN IF paths = <<>> THEN start
       ELSE IF ~grep_runs THEN start
       ELSE LET stdout == GrepOutput(c, files, paths)
            IN IF GrepReturnCode(c, files, paths) = 0 /\ stdout # <<>>
               THEN GrepParseLoop(c, StdoutLines(stdout), 1, start)
               ELSE start

-----------------------------------------------------------------------------
(* TodoChecker.get_all_repo_files and the pre-commit configuration filter *)

\* str.endswith / str.startswith on a path, for a suffix or prefix symbol
EndsWith(f, sym) == f # <<>> /\ f[Len(f)] = sym

StartsWith(f, sym) == f # <<>> /\ f[1] = sym

BinarySuffixes == {".png", ".jpg", ".jpeg", ".gif", ".pdf", ".ico", ".svg",
                   ".lock", ".pyc"}

DocSuffixes == {"README.md", "CHANGELOG.md", "LICENSE",
                ".pre-commit-config.yaml", ".pre-commit-hooks.yaml"}

SkippedDirs == {".devcontainer/", "docs/", ".github/"}

PackageFiles == {<<"pyproject.toml">>, <<"setup.py">>, <<"setup.cfg">>,
                 <<"requirements.txt">>}


\* a mutant of RepoFileSkipped: a package file is skipped in any directory
RepoFileSkippedAnywhere(f) ==
    \/ f = <<>>
    \/ \E x \in BinarySuffixes : EndsWith(f, x)
    \/ \E x \in DocSuffixes : EndsWith(f, x)
    \/ \E x \in SkippedDirs : StartsWith(f, x)
    \/ StartsWith(f, "tests/")
    \/ Contains(f, <<"/test_data/">>)
    \/ EndsWith(f, "_test.py")
    \/ EndsWith(f, "test_.py")
    \/ \E x \in PackageFiles : EndsWith(f, x[1])

\* the listing loop skips the path f
RepoFileSkipped(f) ==
    \/ f = <<>>
    \/ \E x \in BinarySuffixes : EndsWith(f, x)
    \/ \E x \in DocSuffixes : EndsWith(f, x)
    \/ \E x \in SkippedDirs : StartsWith(f, x)
    \/ StartsWith(f, "tests/")
    \/ Contains(f, <<"/test_data/">>)
    \/ EndsWith(f, "_test.py")
    \/ EndsWith(f, "test_.py")
    \/ f \in PackageFiles

\* the listing warning get_all_repo_files prints to stderr
ListWarning == [kind |-> "list_warning", path |-> <<>>]

\* get_all_repo_files(): ls is the outcome of `git ls-files`
GetAllRepoFiles(c, ls) ==
    IF ls.raises
    THEN [files |-> <<>>,
          err |-> IF ~c.quiet THEN <<ListWarning>> ELSE <<>>]
    ELSE IF ls.returncode = 0
    THEN [files |-> SelectSeq(ls.stdout, LAMBDA f : ~RepoFileSkipped(f)),
          err |-> <<>>]
    ELSE [files |-> <<>>, err |-> <<>>]

\* no usable hook configuration: parse_precommit_config returns {}
NoPrecommit ==
    [raises |-> FALSE, has_files |-> FALSE, files |-> {},
     has_exclude |-> FALSE, exclude |-> {}]

\* the warning parse_precommit_config prints to stderr
PrecommitWarning == [kind |-> "precommit_warning", path |-> <<>>]

\* parse_precommit_config(): pre is what .pre-commit-config.yaml holds for the
\* hook; a regex is given by the set of paths it matches
ParsePrecommitConfig(c, pre) ==
    IF pre.raises
    THEN [config |-> NoPrecommit,
          err |-> IF ~c.quiet THEN <<PrecommitWarning>> ELSE <<>>]
    ELSE [config |-> pre, err |-> <<>>]

\* filter_files_by_precommit_config(file_paths, config), files and exclude
FilterFilesByPrecommitConfig(paths, config) ==
    IF ~config.has_files /\ ~config.has_exclude THEN paths
    ELSE LET included == IF config.has_files
                         THEN SelectSeq(paths, LAMBDA f : f \in config.files)
                         ELSE paths
         IN IF config.has_exclude
            THEN SelectSeq(included, LAMBDA f : f \notin config.exclude)
            ELSE included

-----------------------------------------------------------------------------
(* TodoChecker.check_files *)

\* one printed line
Line(kind, path, num, text, clean, staged) ==
    [kind |-> kind, path |-> path, num |-> num, text |-> text,
     clean |-> clean, staged |-> staged]

\* a printed line that carries only its kind
Plain(kind) == Line(kind, <<>>, 0, <<>>, FALSE, FALSE)

\* a mutant of FilesToCheck: the repository is listed whatever check_unstaged
FilesToCheckAlwaysLists(c, env, file_paths) ==
    LET staged_files == file_paths
        listing == GetAllRepoFiles(c, env.ls)
        parsed == ParsePrecommitConfig(c, env.pre)
        filtered_repo_files ==
            FilterFilesByPrecommitConfig(listing.files, parsed.config)
        unstaged_files ==
            SelectSeq(filtered_repo_files, LAMBDA f : ~InList(f, staged_files))
    IN IF file_paths = <<>>
       THEN [files |-> filtered_repo_files, listed |-> 1,
             err |-> listing.err \o parsed.err]
       ELSE [files |-> staged_files \o unstaged_files, listed |-> 1,
             err |-> listing.err \o parsed.err]


\* a mutant of FilesToCheck: the listed files come before the supplied ones
FilesToCheckListedFirst(c, env, file_paths) ==
    LET staged_files == file_paths
        listing == GetAllRepoFiles(c, env.ls)
        parsed == ParsePrecommitConfig(c, env.pre)
        filtered_repo_files ==
            FilterFilesByPrecommitConfig(listing.files, parsed.config)
        unstaged_files ==
            SelectSeq(filtered_repo_files, LAMBDA f : ~InList(f, staged_files))
    IN IF file_paths = <<>>
       THEN [files |-> filtered_repo_files, listed |-> 1,
             err |-> listing.err \o parsed.err]
       ELSE IF c.check_unstaged
       THEN [files |-> unstaged_files \o staged_files, listed |-> 1,
             err |-> listing.err \o parsed.err]
       ELSE [files |-> staged_files, listed |-> 0, err |-> <<>>]

\* the files to check and what computing them printed and invoked
\* (check_files up to `files_to_check`), when the call does not return early
FilesToCheck(c, env, file_paths) ==
    LET staged_files == file_paths
        listing == GetAllRepoFiles(c, env.ls)
        parsed == ParsePrecommitConfig(c, env.pre)
        filtered_repo_files ==
            FilterFilesByPrecommitConfig(listing.files, parsed.config)
        unstaged_files ==
            SelectSeq(filtered_repo_files, LAMBDA f : ~InList(f, staged_files))
    IN IF file_paths = <<>>
       THEN [files |-> filtered_repo_files, listed |-> 1,
             err |-> listing.err \o parsed.err]
       ELSE IF c.check_unstaged
       THEN [files |-> staged_files \o unstaged_files, listed |-> 1,
             err |-> listing.err \o parsed.err]
       ELSE [files |-> staged_files, listed |-> 0, err |-> <<>>]

\* the configuration lines verbose mode prints first
ConfigLines(c, file_paths) ==
    IF ~c.verbose THEN <<>>
    ELSE <<Line("config", <<>>, 0, Concat(c.comment_prefixes),
                c.jira_prefixes # <<>>, FALSE)>>
         \o (IF file_paths = <<>> THEN <<Plain("no_specific_files")>>
             ELSE <<>>)

\* a mutant of ScanOne: every file counts as staged
ScanOneAllStaged(c, files, staged_files, grep, file_path, acc) ==
    LET is_staged == TRUE
        use_grep == file_path \in DOMAIN grep
        scan == CheckFileOp(c, files, file_path, acc.ticket_todos)
        found == IF use_grep THEN grep[file_path] ELSE scan.violations
        a1 == IF use_grep THEN acc
              ELSE [acc EXCEPT !.ticket_todos = scan.ticket_todos,
                               !.err = @ \o scan.err,
                               !.checked = Append(@, file_path)]
    IN IF found # <<>>
       THEN [a1 EXCEPT
               !.staged_violations = Append(@, <<file_path, found>>),
               !.file_statuses = Append(@, <<file_path, FALSE, TRUE>>),
               !.exit_code = 1]
       ELSE [a1 EXCEPT
               !.file_statuses = Append(@, <<file_path, TRUE, is_staged>>)]

\* a mutant of ScanOne: a TODO of the current ticket fails the run
ScanOneTodosBlock(c, files, staged_files, grep, file_path, acc) ==
    LET is_staged == InList(file_path, staged_files)
        use_grep == file_path \in DOMAIN grep
        scan == CheckFileOp(c, files, file_path, acc.ticket_todos)
        found == IF use_grep THEN grep[file_path] ELSE scan.violations
        a1 == IF use_grep THEN acc
              ELSE [acc EXCEPT !.ticket_todos = scan.ticket_todos,
                               !.err = @ \o scan.err,
                               !.checked = Append(@, file_path),
                               !.exit_code =
                                   IF scan.ticket_todos # acc.ticket_todos
                                   THEN 1 ELSE @]
    IN IF found # <<>>
       THEN IF is_staged
            THEN [a1 EXCEPT
                    !.staged_violations = Append(@, <<file_path, found>>),
                    !.file_statuses = Append(@, <<file_path, FALSE, TRUE>>),
                    !.exit_code = 1]
            ELSE [a1 EXCEPT
                    !.unstaged_violations = Append(@, <<file_path, found>>),
                    !.file_statuses = Append(@, <<file_path, FALSE, FALSE>>)]
       ELSE [a1 EXCEPT
               !.file_statuses = Append(@, <<file_path, TRUE, is_staged>>)]

\* a mutant of ScanOne: a file with violations fails the run, staged or not
ScanOneAnyFileBlocks(c, files, staged_files, grep, file_path, acc) ==
    LET is_staged == InList(file_path, staged_files)
        use_grep == file_path \in DOMAIN grep
        scan == CheckFileOp(c, files, file_path, acc.ticket_todos)
        found == IF use_grep THEN grep[file_path] ELSE scan.violations
        a1 == IF use_grep THEN acc
              ELSE [acc EXCEPT !.ticket_todos = scan.ticket_todos,
                               !.err = @ \o scan.err,
                               !.checked = Append(@, file_path)]
    IN IF found # <<>>
       THEN IF is_staged
            THEN [a1 EXCEPT
                    !.staged_violations = Append(@, <<file_path, found>>),
                    !.file_statuses = Append(@, <<file_path, FALSE, TRUE>>),
                    !.exit_code = 1]
            ELSE [a1 EXCEPT
                    !.unstaged_violations = Append(@, <<file_path, found>>),
                    !.file_statuses = Append(@, <<file_path, FALSE, FALSE>>),
                    !.exit_code = 1]
       ELSE [a1 EXCEPT
               !.file_statuses = Append(@, <<file_path, TRUE, is_staged>>)]

\* the body of `for file_path in files_to_check`
ScanOne(c, files, staged_files, grep, file_path, acc) ==
    LET is_staged == InList(file_path, staged_files)
        use_grep == file_path \in DOMAIN grep
        scan == CheckFileOp(c, files, file_path, acc.ticket_todos)
        found == IF use_grep THEN grep[file_path] ELSE scan.violations
        a1 == IF use_grep THEN acc
              ELSE [acc EXCEPT !.ticket_todos = scan.ticket_todos,
                               !.err = @ \o scan.err,
                               !.checked = Append(@, file_path)]
    IN IF found # <<>>
       THEN IF is_staged
            THEN [a1 EXCEPT
                    !.staged_violations = Append(@, <<file_path, found>>),
                    !.file_statuses = Append(@, <<file_path, FALSE, TRUE>>),
                    !.exit_code = 1]
            ELSE [a1 EXCEPT
                    !.unstaged_violations = Append(@, <<file_path, found>>),
                    !.file_statuses = Append(@, <<file_path, FALSE, FALSE>>)]
       ELSE [a1 EXCEPT
               !.file_statuses = Append(@, <<file_path, TRUE, is_staged>>)]

RECURSIVE ScanLoop(_, _, _, _, _, _, _)
\* `for file_path in files_to_check`
ScanLoop(c, files, staged_files, grep, to_check, n, acc) ==
    IF n > Len(to_check) THEN acc
    ELSE ScanLoop(c, files, staged_files, grep, to_check, n + 1,
                  ScanOne(c, files, staged_files, grep, to_check[n], acc))

RECURSIVE ViolationLines(_, _, _)
\* one printed line per violation of every (file, violations) pair
ViolationLines(kind, pairs, staged) ==
    IF pairs = <<>> THEN <<>>
    ELSE LET file_path == Head(pairs)[1]
             found == Head(pairs)[2]
         IN [i \in 1..Len(found) |->
               Line(kind, file_path, found[i][1], found[i][2], FALSE, staged)]
            \o ViolationLines(kind, Tail(pairs), staged)

\* the ERROR lines of the staged violations
ErrorLines(c, staged_violations) ==
    IF c.quiet THEN <<>> ELSE ViolationLines("error", staged_violations, TRUE)

\* the WARNING block of the unstaged violations
WarningLines(c, staged_violations, unstaged_violations) ==
    IF unstaged_violations # <<>> /\ ~c.quiet
    THEN (IF staged_violations # <<>> THEN <<Plain("blank")>> ELSE <<>>)
         \o <<Plain("warning_header")>>
         \o ViolationLines("warning", unstaged_violations, FALSE)
    ELSE <<>>

\* a mutant of TicketLines: the block is printed in quiet mode too
TicketLinesLoud(c, staged_files, todos) ==
    IF todos # <<>>
    THEN <<Plain("blank"),
           Line("ticket_header", <<>>, 0, c.current_ticket_id, FALSE, FALSE)>>
         \o [i \in 1..Len(todos) |->
               Line("ticket", todos[i][1], todos[i][2], todos[i][3], FALSE,
                    InList(todos[i][1], staged_files))]
    ELSE <<>>

\* the block of the TODOs of the current branch's ticket
TicketLines(c, staged_files, todos) ==
    IF todos # <<>> /\ ~c.quiet
    THEN <<Plain("blank"),
           Line("ticket_header", <<>>, 0, c.current_ticket_id, FALSE, FALSE)>>
         \o [i \in 1..Len(todos) |->
               Line("ticket", todos[i][1], todos[i][2], todos[i][3], FALSE,
                    InList(todos[i][1], staged_files))]
    ELSE <<>>

\* the example lines of the help text: one per comment prefix, at most three
HelpExamples(c) ==
    LET n == IF Len(c.comment_prefixes) < 3 THEN Len(c.comment_prefixes)
             ELSE 3
    IN [i \in 1..n |->
          Line("help_example", <<>>, 123 + (i - 1),
               c.comment_prefixes[i] \o <<" ">> \o c.jira_prefixes[1],
               FALSE, FALSE)]

\* the help text verbose mode prints when exit_code is 1
HelpLines(c, code) ==
    IF code # 1 THEN <<>>
    ELSE IF c.jira_prefixes # <<>>
    THEN <<Plain("blank"), Plain("help_header")>> \o HelpExamples(c)
         \o (IF Len(c.jira_prefixes) > 1
             THEN <<Line("help_also_valid", <<>>, 0,
                         Concat(Tail(c.jira_prefixes)), FALSE, FALSE)>>
             ELSE <<>>)
    ELSE <<Plain("blank"), Plain("help_not_allowed"),
           Plain("help_remove_them")>>

\* the per-file status list and help text of verbose mode
SummaryLines(c, file_statuses, code) ==
    IF ~c.verbose THEN <<>>
    ELSE <<Plain("blank")>>
         \o [i \in 1..Len(file_statuses) |->
               Line("status", file_statuses[i][1], 0, <<>>,
                    file_statuses[i][2], file_statuses[i][3])]
         \o HelpLines(c, code)

\* a mutant of ReturnValue: succeed_always is ignored
ReturnValueNoOverride(c, code) == code

\* `return 0 if self.succeed_always else self.exit_code`
ReturnValue(c, code) == IF c.succeed_always THEN 0 ELSE code

\* a mutant of NothingToCheck: the early return gives exit_code back
NothingToCheckReturnsExitCode(c, st) ==
    [ret |-> ReturnValue(c, st.exit_code), exit_code |-> st.exit_code,
     ticket_todos |-> st.ticket_todos,
     out |-> IF ~c.quiet THEN <<Plain("no_files_warning")>> ELSE <<>>,
     err |-> <<>>, checked |-> <<>>, grepped |-> <<>>, listed |-> 0,
     grep_results |-> EmptyDict, files_to_check |-> <<>>,
     staged_violations |-> <<>>, unstaged_violations |-> <<>>,
     file_statuses |-> <<>>]

\* no files and check_unstaged unset: a warning unless quiet, then `return 0`
NothingToCheck(c, st) ==
    [ret |-> 0, exit_code |-> st.exit_code,
     ticket_todos |-> st.ticket_todos,
     out |-> IF ~c.quiet THEN <<Plain("no_files_warning")>> ELSE <<>>,
     err |-> <<>>, checked |-> <<>>, grepped |-> <<>>, listed |-> 0,
     grep_results |-> EmptyDict, files_to_check |-> <<>>,
     staged_violations |-> <<>>, unstaged_violations |-> <<>>,
     file_statuses |-> <<>>]

\* check_files(file_paths) on a checker whose fields are st, in environment env
\* (the outcomes of git ls-files, the hook configuration and grep)
CheckFilesOp(c, files, env, st, file_paths) ==
    IF file_paths = <<>> /\ ~c.check_unstaged
    THEN NothingToCheck(c, st)
    ELSE
    LET staged_files == file_paths
        ftc == FilesToCheck(c, env, file_paths)
        files_to_check == ftc.files
        use_grep == Len(files_to_check) > 3
        grep == IF use_grep
                THEN FindTodosWithGrepOp(c, files, files_to_check,
                                         st.ticket_todos, env.grep_runs)
                ELSE [todos_by_file |-> EmptyDict,
                      ticket_todos |-> st.ticket_todos]
        start == [exit_code |-> st.exit_code,
                  ticket_todos |-> grep.ticket_todos,
                  err |-> ftc.err, checked |-> <<>>,
                  staged_violations |-> <<>>, unstaged_violations |-> <<>>,
                  file_statuses |-> <<>>]
        acc == ScanLoop(c, files, staged_files, grep.todos_by_file,
                        files_to_check, 1, start)
    IN [ret |-> ReturnValue(c, acc.exit_code),
        exit_code |-> acc.exit_code,
        ticket_todos |-> acc.ticket_todos,
        out |-> ConfigLines(c, file_paths)
                \o ErrorLines(c, acc.staged_violations)
                \o WarningLines(c, acc.staged_violations,
                                acc.unstaged_violations)
                \o TicketLines(c, staged_files, acc.ticket_todos)
                \o SummaryLines(c, acc.file_statuses, acc.exit_code),
        err |-> acc.err,
        checked |-> acc.checked,
        grepped |-> IF use_grep THEN <<files_to_check>> ELSE <<>>,
        listed |-> ftc.listed,
        grep_results |-> grep.todos_by_file,
        files_to_check |-> files_to_check,
        staged_violations |-> acc.staged_violations,
        unstaged_violations |-> acc.unstaged_violations,
        file_statuses |-> acc.file_statuses]

-----------------------------------------------------------------------------
(* TodoChecker.__init__ *)

\* __init__: a single prefix given as a str is stored as a one-element list,
\* comment_prefixes None selects the default list; exit_code and ticket_todos
\* start at 0 and [] (see Init)
TodoChecker(jira_prefixes, comment_prefixes, quiet, verbose, succeed_always, current_ticket_id, check_unstaged) ==
    [jira_prefixes |-> IF jira_prefixes.is_str THEN <<jira_prefixes.value>>
                       ELSE jira_prefixes.value,
     comment_prefixes |-> IF comment_prefixes.is_none
                          THEN DefaultCommentPrefixes
                          ELSE comment_prefixes.value,
     quiet |-> quiet, verbose |-> verbose,
     succeed_always |-> succeed_always,
     check_unstaged |-> check_unstaged,
     current_ticket_id |-> current_ticket_id]

\* constructor arguments
Str(t) == [is_str |-> TRUE, value |-> t]

List(l) == [is_str |-> FALSE, value |-> l]

None == [is_none |-> TRUE, value |-> <<>>]

Some(v) == [is_none |-> FALSE, value |-> v]

-----------------------------------------------------------------------------
(* The fixture: paths, file contents, environments *)

pA == <<"a", ".py">>
pB == <<"b", ".py">>
pD == <<"d", ".py">>
pE == <<"e", ".py">>
pG == <<"g", ".py">>
pT == <<"tests/", "a", ".py">>
pDoc == <<"docs/", "a", ".py">>

\* the paths a caller supplies
Paths == {pA, pB, pE}

AllPaths == Paths \cup {pD, pG, pT, pDoc}

Proj1 == <<"PROJ", "-", "1">>

lTodo == <<"TODO", ":", "x">>
lFixme == <<"#", "FIXME", " ">>
lMine == <<"TODO", " ", "PROJ", "-", "1", " ">>
lOther == <<"TODO", ":", "PROJ", "-", "2">>
lNoqa == <<"TODO", " ", "NOQA">>
lCode == <<"x">>

\* the files of the fixture repository: a.py has a violation and a TODO of
\* ticket PROJ-1, b.py no violation but a TODO of PROJ-1, a TODO of another
\* ticket and a suppressed one, d.py violations, e.py breaks while it is
\* read, after its second line, g.py is tracked but deleted
Fixture ==
    [p \in AllPaths |->
        CASE p = pA -> File(<<lCode, lTodo, lMine>>)
          [] p = pB -> File(<<lMine, lOther, lNoqa>>)
          [] p = pD -> File(<<lFixme, lTodo>>)
          [] p = pE -> BrokenFile(<<lTodo, lMine, lFixme>>, 2)
          [] p = pG -> MissingFile
          [] p = pT -> File(<<lTodo>>)
          [] p = pDoc -> File(<<lTodo>>)]

\* what `git ls-files` prints in the fixture repository
LsStdout == <<pDoc, pD, pB, pT, pG, pA>>

LsOk == [raises |-> FALSE, returncode |-> 0, stdout |-> LsStdout]

LsRaises == [raises |-> TRUE, returncode |-> 0, stdout |-> <<>>]

LsFails == [raises |-> FALSE, returncode |-> 128, stdout |-> <<>>]

\* a hook configuration whose exclude pattern matches g.py
PreExclude == [NoPrecommit EXCEPT !.has_exclude = TRUE, !.exclude = {pG}]

\* the environment of a call
Env(ls, pre, grep_runs) == [ls |-> ls, pre |-> pre, grep_runs |-> grep_runs]

Envs == {Env(LsOk, NoPrecommit, TRUE), Env(LsOk, PreExclude, TRUE),
         Env(LsOk, PreExclude, FALSE), Env(LsRaises, NoPrecommit, TRUE),
         Env(LsFails, NoPrecommit, TRUE)}

\* the environments that differ for the call: the listing and the hook
\* configuration are read only when check_unstaged is set, and without them
\* grep runs only on more than 3 supplied files
EnvsFor(c, file_paths) ==
    IF c.check_unstaged THEN Envs
    ELSE {Env(LsOk, NoPrecommit, g) :
            g \in IF Len(file_paths) > 3 THEN BOOLEAN ELSE {TRUE}}

\* the configurations of the file-level specification
Configs ==
    {TodoChecker(Str(<<"PROJ">>), Some(<<<<"TODO">>, <<"FIXME">>>>),
                 qv[1], qv[2], sa, ticket, cu) :
        qv \in {<<FALSE, FALSE>>, <<TRUE, FALSE>>, <<FALSE, TRUE>>},
        sa \in BOOLEAN, ticket \in {<<>>, Proj1}, cu \in BOOLEAN}

\* four different files that can all be read
FourFiles == <<pA, pB, pD, pT>>

\* the file lists a caller supplies
FileLists == SeqsUpTo(Paths, MaxFiles) \cup {FourFiles}

-----------------------------------------------------------------------------
(* The state machine: one call on a freshly constructed TodoChecker *)

NoCall == [op |-> "none", file_paths |-> <<>>,
           env |-> Env(LsOk, NoPrecommit, TRUE)]

\* the fields `self.exit_code = 0` and `self.ticket_todos = []` of __init__
FreshFields == [exit_code |-> 0, ticket_todos |-> <<>>]

\* cli.main is not running
NoProc == [at |-> "none"]

\* the state __init__ leaves, before any call
Fresh ==
    /\ exit_code = 0
    /\ ticket_todos = <<>>
    /\ pc = "ready"
    /\ call = NoCall
    /\ ret = 0
    /\ violations = <<>>
    /\ grep_results = EmptyDict
    /\ out = <<>>
    /\ err = <<>>
    /\ checked = <<>>
    /\ grepped = <<>>
    /\ listed = 0
    /\ history = <<>>
    /\ proc = NoProc

Init ==
    /\ cfg \in Configs
    /\ fs = Fixture
    /\ Fresh

\* checker.check_files(file_paths) in environment env
CheckFiles(file_paths, env) ==
    /\ pc = "ready"
    /\ \E r \in {CheckFilesOp(cfg, fs, env,
                              [exit_code |-> exit_code,
                               ticket_todos |-> ticket_todos], file_paths)} :
          /\ ret' = r.ret
          /\ exit_code' = r.exit_code
          /\ ticket_todos' = r.ticket_todos
          /\ out' = r.out
          /\ err' = r.err
          /\ checked' = r.checked
          /\ grepped' = r.grepped
          /\ listed' = r.listed
          /\ grep_results' = r.grep_results
    /\ pc' = "done"
    /\ call' = [op |-> "check_files", file_paths |-> file_paths, env |-> env]
    /\ UNCHANGED <<cfg, fs, violations, history, proc>>

\* one call is made on the checker
Next ==
    /\ pc = "ready"
    /\ \E file_paths \in FileLists :
          \E env \in EnvsFor(cfg, file_paths) : CheckFiles(file_paths, env)

Spec == Init /\ [][Next]_vars

-----------------------------------------------------------------------------
(* The line-level specification: one call of check_file or of                *)
(* find_todos_with_grep on a file whose last line is any line of at most     *)
(* MaxLineLen atoms                                                          *)

aTodo == <<" ", "TODO">>
aProj1 == <<" ", "PROJ", "-", "1">>
aOth2 == <<" ", "OTH", "-", "2">>
aNoqa == <<" ", "noqa">>
aFix == <<":", "FIX001">>
aX == <<"X">>
aXProj1 == <<"X", "PROJ", "-", "1">>
aTwo == <<"2">>
aSp == <<" ">>

Atoms == {aTodo, aProj1, aOth2, aNoqa, aFix, aX, aXProj1, aTwo, aSp}

\* every line made of at most MaxLineLen atoms
Lines == {Concat(q) : q \in SeqsUpTo(Atoms, MaxLineLen)}

\* the configurations of the line-level specification: default comment
\* prefixes; no, one or two ticket prefixes; with and without a current ticket
LineConfigs ==
    {TodoChecker(jp, None, FALSE, FALSE, FALSE, ticket, FALSE) :
        jp \in {List(<<>>), Str(<<"PROJ">>), List(<<<<"OTH">>, <<"PROJ">>>>)},
        ticket \in {<<>>, Proj1}}

\* a file system whose only file is a.py with the given lines
OneFile(lines) ==
    [p \in AllPaths |-> IF p = pA THEN File(lines) ELSE MissingFile]

InitLine ==
    /\ cfg \in LineConfigs
    /\ \E line \in Lines, pad \in {<<>>, <<lCode>>} :
          fs = OneFile(pad \o <<line>>)
    /\ Fresh

\* checker.check_file(file_path)
CheckFile(file_path) ==
    /\ pc = "ready"
    /\ \E r \in {CheckFileOp(cfg, fs, file_path, ticket_todos)} :
          /\ violations' = r.violations
          /\ ticket_todos' = r.ticket_todos
          /\ err' = r.err
    /\ checked' = <<file_path>>
    /\ pc' = "done"
    /\ call' = [NoCall EXCEPT !.op = "check_file",
                              !.file_paths = <<file_path>>]
    /\ UNCHANGED <<cfg, fs, exit_code, ret, grep_results, out, grepped,
                   listed, history, proc>>

\* checker.find_todos_with_grep(file_paths)
FindTodosWithGrep(file_paths, grep_runs) ==
    /\ pc = "ready"
    /\ \E r \in {FindTodosWithGrepOp(cfg, fs, file_paths, ticket_todos,
                                     grep_runs)} :
          /\ grep_results' = r.todos_by_file
          /\ ticket_todos' = r.ticket_todos
    /\ grepped' = <<file_paths>>
    /\ pc' = "done"
    /\ call' = [op |-> "find_todos_with_grep", file_paths |-> file_paths,
                env |-> Env(LsOk, NoPrecommit, grep_runs)]
    /\ UNCHANGED <<cfg, fs, exit_code, ret, violations, out, err, checked,
                   listed, history, proc>>

NextLine ==
    \/ CheckFile(pA)
    \/ \E grep_runs \in BOOLEAN : FindTodosWithGrep(<<pA>>, grep_runs)

SpecLine == InitLine /\ [][NextLine]_vars

-----------------------------------------------------------------------------
(* The call-sequence specification: up to MaxCalls calls of check_files, of  *)
(* check_file and of find_todos_with_grep, one after the other, on one       *)
(* TodoChecker                                                               *)

\* `staged_files = file_paths if file_paths else []`: None and [] alike
StagedFiles(arg) == IF arg.is_none THEN <<>> ELSE arg.value

\* the files of the call-sequence specification; g.py does not exist
SeqPaths == {pA, pB, pG}

\* the arguments check_files is called with
SeqArgs ==
    {None, Some(<<>>), Some(<<pA>>), Some(<<pB>>), Some(<<pG>>),
     Some(<<pG, pA>>), Some(<<pB, pG>>)}

\* the configurations of the call-sequence specification
SeqConfigs ==
    {TodoChecker(Str(<<"PROJ">>), Some(<<<<"TODO">>, <<"FIXME">>>>),
                 FALSE, v, sa, ticket, FALSE) :
        v \in BOOLEAN, sa \in BOOLEAN, ticket \in {<<>>, Proj1}}

\* the environment of the calls: only supplied files are read
SeqEnv == Env(LsOk, NoPrecommit, TRUE)

InitSeq ==
    /\ cfg \in SeqConfigs
    /\ fs = Fixture
    /\ Fresh

\* one more checker.check_files(arg) on the same checker
CheckFilesCall(arg) ==
    /\ pc = "ready"
    /\ Len(history) < MaxCalls
    /\ \E r \in {CheckFilesOp(cfg, fs, SeqEnv,
                              [exit_code |-> exit_code,
                               ticket_todos |-> ticket_todos],
                              StagedFiles(arg))} :
          /\ ret' = r.ret
          /\ exit_code' = r.exit_code
          /\ ticket_todos' = r.ticket_todos
          /\ out' = r.out
          /\ err' = r.err
          /\ checked' = r.checked
          /\ grepped' = r.grepped
          /\ listed' = r.listed
          /\ grep_results' = r.grep_results
          /\ history' = Append(history,
                [op |-> "check_files", arg |-> arg,
                 file_paths |-> StagedFiles(arg),
                 ret |-> r.ret, violations |-> <<>>,
                 exit_before |-> exit_code, exit_after |-> r.exit_code,
                 todos_before |-> ticket_todos,
                 todos_after |-> r.ticket_todos,
                 out |-> r.out, err |-> r.err, checked |-> r.checked,
                 grepped |-> r.grepped, listed |-> r.listed,
                 grep_results |-> r.grep_results])
    /\ call' = [op |-> "check_files", file_paths |-> StagedFiles(arg),
                env |-> SeqEnv]
    /\ UNCHANGED <<cfg, fs, pc, violations, proc>>

\* one more checker.check_file(file_path) on the same checker
CheckFileCall(file_path) ==
    /\ pc = "ready"
    /\ Len(history) < MaxCalls
    /\ \E r \in {CheckFileOp(cfg, fs, file_path, ticket_todos)} :
          /\ violations' = r.violations
          /\ ticket_todos' = r.ticket_todos
          /\ err' = r.err
          /\ history' = Append(history,
                [op |-> "check_file", arg |-> Some(<<file_path>>),
                 file_paths |-> <<file_path>>,
                 ret |-> 0, violations |-> r.violations,
                 exit_before |-> exit_code, exit_after |-> exit_code,
                 todos_before |-> ticket_todos,
                 todos_after |-> r.ticket_todos,
                 out |-> <<>>, err |-> r.err, checked |-> <<file_path>>,
                 grepped |-> <<>>, listed |-> 0, grep_results |-> EmptyDict])
    /\ checked' = <<file_path>>
    /\ call' = [NoCall EXCEPT !.op = "check_file",
                              !.file_paths = <<file_path>>]
    /\ UNCHANGED <<cfg, fs, pc, exit_code, ret, grep_results, out, grepped,
                   listed, proc>>

\* the file lists find_todos_with_grep is called with
SeqGrepArgs == {<<pA>>, <<pB, pA>>}

\* one more checker.find_todos_with_grep(file_paths) on the same checker
FindTodosWithGrepCall(file_paths) ==
    /\ pc = "ready"
    /\ Len(history) < MaxCalls
    /\ \E r \in {FindTodosWithGrepOp(cfg, fs, file_paths, ticket_todos,
                                     SeqEnv.grep_runs)} :
          /\ grep_results' = r.todos_by_file
          /\ ticket_todos' = r.ticket_todos
          /\ history' = Append(history,
                [op |-> "find_todos_with_grep", arg |-> Some(file_paths),
                 file_paths |-> file_paths,
                 ret |-> 0, violations |-> <<>>,
                 exit_before |-> exit_code, exit_after |-> exit_code,
                 todos_before |-> ticket_todos,
                 todos_after |-> r.ticket_todos,
                 out |-> <<>>, err |-> <<>>, checked |-> <<>>,
                 grepped |-> <<file_paths>>, listed |-> 0,
                 grep_results |-> r.todos_by_file])
    /\ grepped' = <<file_paths>>
    /\ call' = [NoCall EXCEPT !.op = "find_todos_with_grep",
                              !.file_paths = file_paths]
    /\ UNCHANGED <<cfg, fs, pc, exit_code, ret, violations, out, err, checked,
                   listed, proc>>

NextSeq ==
    \/ \E arg \in SeqArgs : CheckFilesCall(arg)
    \/ \E file_path \in SeqPaths : CheckFileCall(file_path)
    \/ \E file_paths \in SeqGrepArgs : FindTodosWithGrepCall(file_paths)

SpecSeq == InitSeq /\ [][NextSeq]_vars

-----------------------------------------------------------------------------
(* cli.py: the command line entry point main *)

\* DEFAULT_COMMENT_PREFIXES of cli.py
DEFAULT_COMMENT_PREFIXES == <<<<"TODO">>, <<"FIXME">>, <<"XXX">>, <<"HACK">>>>

RECURSIVE SplitComma(_)
\* value.split(","): the pieces between the commas
SplitComma(t) ==
    IF \A i \in 1..Len(t) : t[i] # "," THEN <<t>>
    ELSE LET i == CHOOSE x \in 1..Len(t) :
                      t[x] = "," /\ \A y \in 1..(x - 1) : t[y] # ","
         IN <<SubSeq(t, 1, i - 1)>> \o SplitComma(SubSeq(t, i + 1, Len(t)))

\* _parse_comma_separated(value): None for None, for the empty string and for
\* a string without items; else the stripped non-empty items
ParseCommaSeparated(value) ==
    IF value.is_none \/ value.value = <<>> THEN None
    ELSE LET pieces == SplitComma(value.value)
             stripped == [i \in 1..Len(pieces) |-> LStrip(RStrip(pieces[i]))]
             parsed == SelectSeq(stripped, LAMBDA item : item # <<>>)
         IN IF parsed # <<>> THEN Some(parsed) ELSE None

\* Python's `x or y` on values that are None or a non-empty list
Or(x, y) == IF ~x.is_none /\ x.value # <<>> THEN x ELSE y

\* a mutant of FinalTicketPrefixes: the environment wins over the flags
FinalTicketPrefixesEnvFirst(cli_ticket, cli_jira, env_ticket, env_jira) ==
    Or(env_ticket, Or(env_jira, Or(cli_ticket, cli_jira)))

\* final_ticket_prefixes: --ticket-prefix, --jira-prefix, TICKET_PREFIX,
\* JIRA_PREFIX, in this order
FinalTicketPrefixes(cli_ticket, cli_jira, env_ticket, env_jira) ==
    Or(cli_ticket, Or(cli_jira, Or(env_ticket, env_jira)))

\* final_comment_prefixes: --comment-prefix, COMMENT_PREFIX, the default
FinalCommentPrefixes(cli_comment, env_comment) ==
    Or(cli_comment, Or(env_comment, Some(DEFAULT_COMMENT_PREFIXES)))

\* a line main prints to stderr
MainErr(kind) == [kind |-> kind, path |-> <<>>]

\* lines 241-282 of main: what is resolved and printed before the validation
Resolve(args, environ) ==
    LET env_ticket_prefixes == ParseCommaSeparated(environ.TICKET_PREFIX)
        env_jira_prefixes == ParseCommaSeparated(environ.JIRA_PREFIX)
        env_comment_prefixes == ParseCommaSeparated(environ.COMMENT_PREFIX)
        cli_ticket_prefixes == ParseCommaSeparated(args.ticket_prefix)
        cli_jira_prefixes == ParseCommaSeparated(args.jira_prefix)
        cli_comment_prefixes == ParseCommaSeparated(args.comment_prefix)
        final_ticket_prefixes ==
            FinalTicketPrefixes(cli_ticket_prefixes, cli_jira_prefixes,
                                env_ticket_prefixes, env_jira_prefixes)
    IN [final_ticket_prefixes |-> final_ticket_prefixes,
        final_comment_prefixes |->
            FinalCommentPrefixes(cli_comment_prefixes, env_comment_prefixes),
        final_succeed_always |-> args.succeed_always,
        err |-> (IF ~cli_jira_prefixes.is_none /\ ~args.quiet
                 THEN <<MainErr("deprecated_flag_warning")>> ELSE <<>>)
                \o (IF /\ ~env_jira_prefixes.is_none
                       /\ env_ticket_prefixes.is_none
                       /\ ~args.quiet
                    THEN <<MainErr("deprecated_env_warning")>> ELSE <<>>),
        out |-> IF final_ticket_prefixes.is_none /\ ~args.quiet
                THEN <<Plain("no_prefix_note")>> ELSE <<>>]

\* a mutant of Validate: conflicting options are let through
ValidateNever(p) ==
    [p EXCEPT !.at = "validated",
              !.err = @ \o (IF p.args.quiet /\ p.final_succeed_always
                            THEN <<MainErr("quiet_succeed_warning")>>
                            ELSE <<>>)]

\* lines 284-297 of main: --quiet with --verbose is an error, sys.exit(2);
\* --quiet with --succeed-always is a warning
Validate(p) ==
    IF p.args.quiet /\ p.args.verbose
    THEN [p EXCEPT !.at = "exited", !.status = 2,
                   !.err = Append(@, MainErr("mutually_exclusive_error"))]
    ELSE [p EXCEPT !.at = "validated",
                   !.err = @ \o (IF p.args.quiet /\ p.final_succeed_always
                                 THEN <<MainErr("quiet_succeed_warning")>>
                                 ELSE <<>>)]

\* outcomes of `git rev-parse --abbrev-ref HEAD`
GitRaises == [raises |-> TRUE, returncode |-> 0, stdout |-> <<>>]

GitFails == [raises |-> FALSE, returncode |-> 128, stdout |-> <<>>]

GitPrints(stdout) == [raises |-> FALSE, returncode |-> 0, stdout |-> stdout]

\* _get_current_git_branch(): the branch name, or None with an error message
GetCurrentGitBranch(git) ==
    IF git.raises \/ git.returncode # 0
    THEN [branch |-> None, error |-> TRUE]
    ELSE LET branch == LStrip(RStrip(git.stdout))
         IN IF branch # <<>> THEN [branch |-> Some(branch), error |-> FALSE]
            ELSE [branch |-> None, error |-> TRUE]

\* re.search(rf"{prefix}-\d+", branch_name).group(0), <<>> when no match: the
\* leftmost occurrence of the prefix, "-" and all the digits that follow
SearchTicket(branch_name, prefix) ==
    LET hits == {i \in 1..Len(branch_name) : \E d \in DigitSyms :
                    MatchAt(branch_name, i, prefix \o <<"-", d>>)}
        i == CHOOSE x \in hits : \A y \in hits : x <= y
        first == i + Len(prefix) + 1
        ends == {e \in first..Len(branch_name) :
                   \A m \in first..e : branch_name[m] \in DigitSyms}
        last == CHOOSE e \in ends : \A y \in ends : y <= e
    IN IF hits = {} THEN <<>> ELSE SubSeq(branch_name, i, last)

\* a mutant of ExtractTicketId: the leftmost match of any prefix
ExtractTicketIdLeftmost(branch_name, ticket_prefixes) ==
    IF branch_name = <<>> \/ ticket_prefixes.is_none
       \/ ticket_prefixes.value = <<>> THEN <<>>
    ELSE LET prefixes == ticket_prefixes.value
             found == {SearchTicket(branch_name, prefixes[k]) :
                         k \in 1..Len(prefixes)} \ {<<>>}
             at(t) == CHOOSE i \in 1..Len(branch_name) :
                        /\ MatchAt(branch_name, i, t)
                        /\ \A j \in 1..(i - 1) : ~MatchAt(branch_name, j, t)
         IN IF found = {} THEN <<>>
            ELSE CHOOSE t \in found : \A u \in found : at(t) <= at(u)

\* _extract_ticket_id(branch_name, ticket_prefixes): the match of the first
\* prefix, in list order, that matches; the list may be None; the result
\* <<>> stands for None
ExtractTicketId(branch_name, ticket_prefixes) ==
    IF branch_name = <<>> \/ ticket_prefixes.is_none
       \/ ticket_prefixes.value = <<>> THEN <<>>
    ELSE LET prefixes == ticket_prefixes.value
             ks == {k \in 1..Len(prefixes) :
                      SearchTicket(branch_name, prefixes[k]) # <<>>}
             k == CHOOSE x \in ks : \A y \in ks : x <= y
         IN IF ks = {} THEN <<>>
            ELSE SearchTicket(branch_name, prefixes[k])

\* lines 299-311 of main: the ticket of the current branch and the note to
\* print after the check
DetectBranch(p, git) ==
    LET got == GetCurrentGitBranch(git)
        prefixes == p.final_ticket_prefixes
        ticket == IF ~got.error /\ ~prefixes.is_none
                  THEN ExtractTicketId(got.branch.value, prefixes)
                  ELSE <<>>
    IN [p EXCEPT !.at = "detected",
                 !.events = Append(@, "branch_detection"),
                 !.branch_name = got.branch,
                 !.branch_error = got.error,
                 !.current_ticket_id = ticket,
                 !.branch_detection_msg =
                     IF got.error THEN "branch_error"
                     ELSE IF ~prefixes.is_none /\ ticket = <<>>
                     THEN "no_ticket_in_branch"
                     ELSE "none"]

\* the parameters of TodoChecker.__init__ and the one without a default
InitParameters ==
    {"jira_prefixes", "comment_prefixes", "quiet", "verbose",
     "succeed_always", "current_ticket_id", "check_unstaged"}

InitRequired == {"jira_prefixes"}

\* the keyword arguments main passes to TodoChecker
MainKeywords ==
    {"ticket_prefixes", "quiet", "verbose", "comment_prefixes",
     "succeed_always", "current_ticket_id", "check_unstaged"}

\* calling a function with keyword arguments raises TypeError when a keyword
\* names no parameter or a parameter without a default gets no argument
CallRaisesTypeError(keywords, parameters, required) ==
    keywords \ parameters # {} \/ required \ keywords # {}

\* the parsed command lines: args of parser.parse_args
MainArgs ==
    [ticket_prefix : {None, Some(<<"PROJ">>), Some(<<",">>)},
     jira_prefix : {None, Some(<<"OTH">>)},
     comment_prefix : {None, Some(<<"TODO">>)},
     quiet : BOOLEAN, verbose : BOOLEAN, succeed_always : BOOLEAN,
     check_unstaged : {FALSE},
     files : {<<>>, <<pA>>}]

\* os.environ: the three variables main reads
MainEnvirons ==
    [TICKET_PREFIX : {None, Some(<<"OTH", " ", ",", " ", "PROJ">>)},
     JIRA_PREFIX : {None, Some(<<"PROJ">>)},
     COMMENT_PREFIX : {None, Some(<<"FIXME">>)}]

\* what `git rev-parse --abbrev-ref HEAD` can do
GitOutcomes ==
    {GitRaises, GitFails, GitPrints(<<"\n">>), GitPrints(<<"main", "\n">>),
     GitPrints(<<"feature/", "OTH", "-", "2", "-", "PROJ", "-", "1", "\n">>)}

\* main(argv) was called: nothing resolved, nothing printed, not ended
MainStart(args, environ) ==
    [at |-> "start", args |-> args, environ |-> environ,
     final_ticket_prefixes |-> None, final_comment_prefixes |-> None,
     final_succeed_always |-> FALSE,
     branch_name |-> None, branch_error |-> FALSE,
     current_ticket_id |-> <<>>, branch_detection_msg |-> "none",
     events |-> <<>>, out |-> <<>>, err |-> <<>>,
     status |-> 0, exc |-> "none"]

\* no TodoChecker is constructed yet
NoChecker == [constructed |-> FALSE]

InitMain ==
    /\ cfg = NoChecker
    /\ fs = Fixture
    /\ exit_code = 0
    /\ ticket_todos = <<>>
    /\ pc = "ready"
    /\ call = NoCall
    /\ ret = 0
    /\ violations = <<>>
    /\ grep_results = EmptyDict
    /\ out = <<>>
    /\ err = <<>>
    /\ checked = <<>>
    /\ grepped = <<>>
    /\ listed = 0
    /\ history = <<>>
    /\ \E args \in MainArgs, environ \in MainEnvirons :
          proc = MainStart(args, environ)

\* main, lines 241-282: environment, flags, warnings, final values, the note
MainResolve ==
    /\ proc.at = "start"
    /\ \E r \in {Resolve(proc.args, proc.environ)} :
          proc' = [proc EXCEPT
                     !.at = "resolved",
                     !.final_ticket_prefixes = r.final_ticket_prefixes,
                     !.final_comment_prefixes = r.final_comment_prefixes,
                     !.final_succeed_always = r.final_succeed_always,
                     !.out = @ \o r.out,
                     !.err = @ \o r.err]
    /\ UNCHANGED <<cfg, fs, exit_code, ticket_todos, pc, call, ret,
                   violations, grep_results, out, err, checked, grepped,
                   listed, history>>

\* main, lines 284-297: the validation of conflicting options
MainValidate ==
    /\ proc.at = "resolved"
    /\ proc' = Validate(proc)
    /\ UNCHANGED <<cfg, fs, exit_code, ticket_todos, pc, call, ret,
                   violations, grep_results, out, err, checked, grepped,
                   listed, history>>

\* main, lines 299-311: the current branch and its ticket
MainDetectBranch(git) ==
    /\ proc.at = "validated"
    /\ proc' = DetectBranch(proc, git)
    /\ UNCHANGED <<cfg, fs, exit_code, ticket_todos, pc, call, ret,
                   violations, grep_results, out, err, checked, grepped,
                   listed, history>>

\* main, lines 313-333: construct the checker, check the files, print the
\* branch note, sys.exit(exit_code); an exception of the constructor call
\* ends main there
MainCheck ==
    /\ proc.at = "detected"
    /\ IF CallRaisesTypeError(MainKeywords, InitParameters, InitRequired)
       THEN /\ proc' = [proc EXCEPT !.at = "raised", !.exc = "TypeError",
                                    !.events = Append(@, "construct")]
            /\ UNCHANGED <<cfg, exit_code, ticket_todos, pc, call, ret,
                           grep_results, out, err, checked, grepped, listed>>
       ELSE \E c \in {TodoChecker(
                        List(IF proc.final_ticket_prefixes.is_none THEN <<>>
                             ELSE proc.final_ticket_prefixes.value),
                        Some(proc.final_comment_prefixes.value),
                        proc.args.quiet, proc.args.verbose,
                        proc.final_succeed_always, proc.current_ticket_id,
                        proc.args.check_unstaged)} :
            \E r \in {CheckFilesOp(c, fs, SeqEnv, FreshFields,
                                   proc.args.files)} :
               /\ cfg' = c
               /\ ret' = r.ret
               /\ exit_code' = r.exit_code
               /\ ticket_todos' = r.ticket_todos
               /\ out' = r.out
               /\ err' = r.err
               /\ checked' = r.checked
               /\ grepped' = r.grepped
               /\ listed' = r.listed
               /\ grep_results' = r.grep_results
               /\ pc' = "done"
               /\ call' = [op |-> "check_files",
                           file_paths |-> proc.args.files, env |-> SeqEnv]
               /\ proc' = [proc EXCEPT
                      !.at = "exited", !.status = r.ret,
                      !.events = @ \o <<"construct", "check_files">>,
                      !.out = @ \o (IF /\ proc.branch_detection_msg # "none"
                                       /\ ~proc.args.quiet
                                    THEN <<Plain("branch_note")>>
                                    ELSE <<>>)]
    /\ UNCHANGED <<fs, violations, history>>

NextMain ==
    \/ MainResolve
    \/ MainValidate
    \/ \E git \in GitOutcomes : MainDetectBranch(git)
    \/ MainCheck

SpecMain == InitMain /\ [][NextMain]_vars

-----------------------------------------------------------------------------
(* The repository-level specification: one call of get_all_repo_files or of  *)
(* check_files in a repository whose listing is any sequence of at most      *)
(* MaxListing paths                                                          *)

pPng == <<"logo", ".png">>
pReadme == <<"README.md">>
pSetup == <<"setup.py">>
pSubSetup == <<"src/", "setup.py">>
pUnit == <<"a", "_test.py">>

\* the paths `git ls-files` may print for get_all_repo_files; <<>> is the
\* empty string that ''.split("\n") yields
ListedPaths == {<<>>, pA, pT, pDoc, pPng, pReadme, pSetup, pSubSetup, pUnit}

\* the paths `git ls-files` may print for check_files: g.py is tracked but
\* deleted from the working tree
TrackedPaths == {pA, pB, pD, pG}

\* `git ls-files` exits 0 and prints the given paths
LsPrints(paths) == [raises |-> FALSE, returncode |-> 0, stdout |-> paths]

\* the outcomes of `git ls-files` over the given paths
LsOutcomes(paths) ==
    {LsRaises, LsFails} \cup {LsPrints(l) : l \in SeqsUpTo(paths, MaxListing)}

\* the file lists a caller supplies in this specification
RepoFileLists == {<<>>, <<pB>>, <<pB, pA>>, <<pD, pB, pA>>, FourFiles}

\* the configurations of this specification
RepoConfigs ==
    {TodoChecker(Str(<<"PROJ">>), Some(<<<<"TODO">>, <<"FIXME">>>>),
                 qv[1], qv[2], FALSE, ticket, cu) :
        qv \in {<<FALSE, FALSE>>, <<TRUE, FALSE>>, <<FALSE, TRUE>>},
        ticket \in {<<>>, Proj1}, cu \in BOOLEAN}

\* the environments that differ for the call
RepoEnvsFor(c, file_paths) ==
    IF c.check_unstaged
    THEN {Env(ls, NoPrecommit, g) :
            ls \in LsOutcomes(TrackedPaths), g \in BOOLEAN}
    ELSE {Env(LsOk, NoPrecommit, g) :
            g \in IF Len(file_paths) > 3 THEN BOOLEAN ELSE {TRUE}}

InitRepo ==
    /\ cfg \in RepoConfigs
    /\ fs = Fixture
    /\ Fresh

\* checker.get_all_repo_files() where `git ls-files` ends as ls; the list
\* it returns is kept in history
GetAllRepoFilesCall(ls) ==
    /\ pc = "ready"
    /\ \E r \in {GetAllRepoFiles(cfg, ls)} :
          /\ history' = <<[op |-> "get_all_repo_files", ret |-> r.files]>>
          /\ err' = r.err
    /\ listed' = 1
    /\ pc' = "done"
    /\ call' = [op |-> "get_all_repo_files", file_paths |-> <<>>,
                env |-> Env(ls, NoPrecommit, TRUE)]
    /\ UNCHANGED <<cfg, fs, exit_code, ticket_todos, ret, violations,
                   grep_results, out, checked, grepped, proc>>

\* one call is made on the checker
NextRepo ==
    /\ pc = "ready"
    /\ \/ \E ls \in LsOutcomes(ListedPaths) : GetAllRepoFilesCall(ls)
       \/ \E file_paths \in RepoFileLists :
             \E env \in RepoEnvsFor(cfg, file_paths) :
                 CheckFiles(file_paths, env)

SpecRepo == InitRepo /\ [][NextRepo]_vars

-----------------------------------------------------------------------------
(* The branch-name specification: one call of cli._extract_ticket_id on any  *)
(* branch name of at most MaxBranchLen atoms                                 *)

bProj1 == <<"PROJ", "-", "1">>
bOth2 == <<"OTH", "-", "2">>
bProj == <<"PROJ">>
bDash == <<"-">>
bX == <<"X">>

BranchAtoms == {bProj1, bOth2, bProj, bDash, bX, aTwo}

\* the branch names: the atoms written one after the other
BranchNames == {Concat(l) : l \in SeqsUpTo(BranchAtoms, MaxBranchLen)}

\* the ticket_prefixes arguments
PrefixLists ==
    {None, Some(<<>>), Some(<<<<"PROJ">>>>), Some(<<<<"OTH">>>>),
     Some(<<<<"PROJ">>, <<"OTH">>>>), Some(<<<<"OTH">>, <<"PROJ">>>>)}

InitExtract ==
    /\ cfg = NoChecker
    /\ fs = Fixture
    /\ Fresh

\* _extract_ticket_id(branch_name, ticket_prefixes)
ExtractTicketIdCall(branch_name, ticket_prefixes) ==
    /\ pc = "ready"
    /\ ret' = ExtractTicketId(branch_name, ticket_prefixes)
    /\ pc' = "done"
    /\ call' = [op |-> "_extract_ticket_id", branch_name |-> branch_name,
                ticket_prefixes |-> ticket_prefixes]
    /\ UNCHANGED <<cfg, fs, exit_code, ticket_todos, violations, grep_results,
                   out, err, checked, grepped, listed, history, proc>>

NextExtract ==
    /\ pc = "ready"
    /\ \E branch_name \in BranchNames, ticket_prefixes \in PrefixLists :
          ExtractTicketIdCall(branch_name, ticket_prefixes)

SpecExtract == InitExtract /\ [][NextExtract]_vars

-----------------------------------------------------------------------------
(* The vocabulary of the properties *)

\* the keywords of the configuration, as a set of texts
Keywords(c) == {c.comment_prefixes[k] : k \in 1..Len(c.comment_prefixes)}

\* the line contains a configured comment keyword as a whole word
IsCommentLine(c, line) ==
    \E i \in 1..Len(line) : \E j \in i..Len(line) :
        /\ SubSeq(line, i, j) \in Keywords(c)
        /\ (i = 1 \/ ~IsWord(line[i - 1]))
        /\ (j = Len(line) \/ ~IsWord(line[j + 1]))

\* the line contains <prefix>-<digit> for a configured ticket prefix
HasValidReference(c, line) ==
    \E k \in 1..Len(c.jira_prefixes) : \E d \in DigitSyms :
        Contains(line, c.jira_prefixes[k] \o <<"-", d>>)

\* the line carries a suppression marker
IsSuppressed(line) == NoqaSearch(line)

\* the line is a violation: a comment keyword, no valid reference, no marker
IsViolationLine(c, line) ==
    IsCommentLine(c, line) /\ ~HasValidReference(c, line) /\ ~IsSuppressed(line)

\* the lines of a file that a scan reads
ScannedLines(f) ==
    IF ~f.exists THEN <<>>
    ELSE IF f.read_error THEN SubSeq(f.lines, 1, f.read_ok)
    ELSE f.lines

\* some line read from the file at path p is a violation
FileHasViolation(c, p) ==
    \E i \in 1..Len(ScannedLines(fs[p])) :
        IsViolationLine(c, ScannedLines(fs[p])[i])

\* line number n is among the returned violations vs
Reported(vs, n) == \E k \in 1..Len(vs) : vs[k][1] = n

\* the violations find_todos_with_grep returned for path p
GrepReported(p) == IF p \in DOMAIN grep_results THEN grep_results[p] ELSE <<>>

\* line number n of path p is recorded in ticket_todos
Tracked(p, n) ==
    \E k \in 1..Len(ticket_todos) :
        ticket_todos[k][1] = p /\ ticket_todos[k][2] = n

CheckFileDone == pc = "done" /\ call.op = "check_file"

GrepDone == pc = "done" /\ call.op = "find_todos_with_grep"

CheckFilesDone == pc = "done" /\ call.op = "check_files"

\* the lines of a.py, the file of the line-level specification
LinesA == fs[pA].lines

-----------------------------------------------------------------------------
(* C3 *)

\* C3: a line that contains a configured comment keyword and a valid
\* reference <prefix>-<digits> for a configured prefix is never among the
\* violations check_file returns nor among those find_todos_with_grep returns
C3_ReferencedLineNeverViolation ==
    \A n \in 1..Len(LinesA) :
        (IsCommentLine(cfg, LinesA[n]) /\ HasValidReference(cfg, LinesA[n]))
        => /\ CheckFileDone => ~Reported(violations, n)
           /\ GrepDone => \A p \in DOMAIN grep_results :
                              ~Reported(grep_results[p], n)

\* C3 witness: the batch search ran over a referenced comment line, next to
\* the second configured prefix, and returned nothing for it
C3_Witness ==
    /\ GrepDone /\ call.env.grep_runs
    /\ Len(cfg.jira_prefixes) = 2
    /\ \E n \in 1..Len(LinesA) :
          /\ IsCommentLine(cfg, LinesA[n])
          /\ Contains(LinesA[n], Proj1)
          /\ ~Reported(GrepReported(pA), n)

-----------------------------------------------------------------------------
(* C4 *)

\* C4: check_file returns every line that contains a configured comment
\* keyword, no valid ticket reference and no suppression marker as a
\* violation, with its 1-based line number and its text
C4_UnreferencedLineIsViolation ==
    CheckFileDone =>
        \A n \in 1..Len(LinesA) :
            IsViolationLine(cfg, LinesA[n])
            => \E k \in 1..Len(violations) :
                  violations[k] = <<n, RStrip(LinesA[n])>>

\* C4 witness: with a ticket prefix configured, check_file returned the
\* second line of the file, which refers to an unconfigured prefix only
C4_Witness ==
    /\ CheckFileDone
    /\ cfg.jira_prefixes = <<<<"PROJ">>>>
    /\ Len(LinesA) = 2
    /\ Contains(LinesA[2], <<"OTH", "-", "2">>)
    /\ IsViolationLine(cfg, LinesA[2])
    /\ Len(violations) = 1 /\ violations[1][1] = 2

-----------------------------------------------------------------------------
(* C5 *)

\* C5 as stated: with no ticket prefix configured, every line containing a
\* comment keyword is a violation and no line is recorded as ticket-tracked
C5_Original ==
    (pc = "done" /\ cfg.jira_prefixes = <<>>) =>
        /\ ticket_todos = <<>>
        /\ \A n \in 1..Len(LinesA) :
              IsCommentLine(cfg, LinesA[n])
              => /\ CheckFileDone => Reported(violations, n)
                 /\ (GrepDone /\ call.env.grep_runs)
                       => Reported(GrepReported(pA), n)

\* C5 amended: with no ticket prefix configured, every line containing a
\* comment keyword that carries no suppression marker is a violation, whatever
\* ticket-like tokens it carries, and no line is recorded as ticket-tracked
C5_NoPrefixEveryUnsuppressedLineViolation ==
    (pc = "done" /\ cfg.jira_prefixes = <<>>) =>
        /\ ticket_todos = <<>>
        /\ \A n \in 1..Len(LinesA) :
              (IsCommentLine(cfg, LinesA[n]) /\ ~IsSuppressed(LinesA[n]))
              => /\ CheckFileDone => Reported(violations, n)
                 /\ (GrepDone /\ call.env.grep_runs)
                       => Reported(GrepReported(pA), n)

\* C5 witness: no prefix configured, a current ticket given, and check_file
\* returned a comment line that names that very ticket as a violation
C5_Witness ==
    /\ CheckFileDone
    /\ cfg.jira_prefixes = <<>>
    /\ cfg.current_ticket_id = Proj1
    /\ \E n \in 1..Len(LinesA) :
          /\ IsCommentLine(cfg, LinesA[n])
          /\ Contains(LinesA[n], Proj1)
          /\ Reported(violations, n)
    /\ ticket_todos = <<>>

-----------------------------------------------------------------------------
(* C6 *)

\* C6: a comment line that the suppression matcher matches is never reported:
\* it is neither among the violations nor in ticket_todos, even when it
\* carries a reference to the current ticket
C6_SuppressedNeverReported ==
    pc = "done" =>
        \A n \in 1..Len(LinesA) :
            (IsCommentLine(cfg, LinesA[n]) /\ IsSuppressed(LinesA[n]))
            => /\ ~Reported(violations, n)
               /\ ~Reported(GrepReported(pA), n)
               /\ ~Tracked(pA, n)

-----------------------------------------------------------------------------
(* C7 *)

\* where jira_pattern.search(line) matches first, 0 when nowhere
RefStart(c, line) ==
    LET hits == {i \in 1..Len(line) :
                   \E k \in 1..Len(c.jira_prefixes) : \E d \in DigitSyms :
                       MatchAt(line, i, c.jira_prefixes[k] \o <<"-", d>>)}
    IN IF hits = {} THEN 0 ELSE CHOOSE i \in hits : \A j \in hits : i <= j

\* the text jira_pattern.search(line) matches: at the leftmost position, the
\* first prefix in configured order, "-" and all the digits that follow
MatchedReference(c, line) ==
    LET i == RefStart(c, line)
        ks == {k \in 1..Len(c.jira_prefixes) : \E d \in DigitSyms :
                  MatchAt(line, i, c.jira_prefixes[k] \o <<"-", d>>)}
        k == CHOOSE x \in ks : \A y \in ks : x <= y
        first == i + Len(c.jira_prefixes[k]) + 1
        ends == {e \in first..Len(line) :
                   \A m \in first..e : line[m] \in DigitSyms}
        last == CHOOSE e \in ends : \A y \in ends : y <= e
    IN IF i = 0 THEN <<>> ELSE SubSeq(line, i, last)

\* C7: a comment line with a valid ticket reference is recorded in
\* ticket_todos if and only if current_ticket_id is set and occurs inside the
\* matched reference; a line whose reference is to another ticket is not
\* recorded, also when current_ticket_id occurs elsewhere in its text
C7_TrackedIffTicketInMatchedReference ==
    (CheckFileDone \/ (GrepDone /\ call.env.grep_runs)) =>
        \A n \in 1..Len(LinesA) :
            (IsCommentLine(cfg, LinesA[n]) /\ HasValidReference(cfg, LinesA[n]))
            => (Tracked(pA, n)
                <=> /\ cfg.current_ticket_id # <<>>
                    /\ Contains(MatchedReference(cfg, LinesA[n]),
                                cfg.current_ticket_id))

-----------------------------------------------------------------------------
(* The vocabulary of the file-level properties *)

\* the file list the call supplied (the staged files)
Supplied == call.file_paths

\* the files the call checks: none on the early return, else files_to_check
CheckedFiles ==
    IF Supplied = <<>> /\ ~cfg.check_unstaged THEN <<>>
    ELSE FilesToCheck(cfg, call.env, Supplied).files

\* some supplied file has a violation line
SuppliedViolation ==
    \E i \in 1..Len(Supplied) : FileHasViolation(cfg, Supplied[i])

\* a line of the given kind was printed for path p
Printed(kind, p) ==
    \E k \in 1..Len(out) : out[k].kind = kind /\ out[k].path = p

\* the paths that were scanned, by check_file or by the batch search
Scanned ==
    {checked[i] : i \in 1..Len(checked)}
    \cup UNION {{grepped[i][j] : j \in 1..Len(grepped[i])} :
                  i \in 1..Len(grepped)}

\* the line is ticket-tracked: an unsuppressed comment line whose matched
\* reference contains the current ticket
IsTicketLine(c, line) ==
    /\ IsCommentLine(c, line)
    /\ ~IsSuppressed(line)
    /\ HasValidReference(c, line)
    /\ c.current_ticket_id # <<>>
    /\ Contains(MatchedReference(c, line), c.current_ticket_id)

-----------------------------------------------------------------------------
(* C1 *)

\* C1: on a freshly constructed checker with succeed_always false,
\* check_files returns 1 if and only if at least one supplied file has at
\* least one violation line, and 0 otherwise
C1_ReturnsOneIffSuppliedViolation ==
    (CheckFilesDone /\ ~cfg.succeed_always) =>
        /\ ret \in {0, 1}
        /\ ret = 1 <=> SuppliedViolation

\* C1 witness: four supplied files went through the batch search, which
\* found the violation, and check_files returned 1
C1_Witness ==
    /\ CheckFilesDone /\ ~cfg.succeed_always
    /\ Len(Supplied) = 4
    /\ grepped = <<Supplied>>
    /\ pA \in DOMAIN grep_results
    /\ ret = 1

-----------------------------------------------------------------------------
(* C2 *)

\* C2: with succeed_always set check_files returns 0 for every input, and the
\* internal exit_code (1 when a supplied file has a violation) and everything
\* printed equal those of the same call with succeed_always unset
C2_SucceedAlwaysOnlyOverridesReturn ==
    (CheckFilesDone /\ cfg.succeed_always) =>
        LET plain == CheckFilesOp([cfg EXCEPT !.succeed_always = FALSE], fs,
                                  call.env, FreshFields, Supplied)
        IN /\ ret = 0
           /\ exit_code = plain.exit_code
           /\ exit_code = 1 <=> SuppliedViolation
           /\ out = plain.out
           /\ err = plain.err
           /\ plain.ret = plain.exit_code

\* C2 witness: succeed_always set, a blocking violation printed as ERROR,
\* exit_code 1 and the return value 0
C2_Witness ==
    /\ CheckFilesDone /\ cfg.succeed_always
    /\ exit_code = 1
    /\ ret = 0
    /\ Printed("error", pA)

-----------------------------------------------------------------------------
(* C8 *)

\* C8: ticket_todos holds the ticket-tracked lines of every checked file,
\* staged or not, and never influences the exit code: the exit code is that
\* of the same call without a current ticket, and a call that finds no
\* violation returns 0 whatever ticket_todos holds
C8_TicketTodosCollectedNeverBlocking ==
    CheckFilesDone =>
        LET untracked == CheckFilesOp([cfg EXCEPT !.current_ticket_id = <<>>],
                                      fs, call.env, FreshFields, Supplied)
        IN /\ \A i \in 1..Len(CheckedFiles) :
                \A n \in 1..Len(ScannedLines(fs[CheckedFiles[i]])) :
                    IsTicketLine(cfg, ScannedLines(fs[CheckedFiles[i]])[n])
                    => Tracked(CheckedFiles[i], n)
           /\ ret = untracked.ret
           /\ exit_code = untracked.exit_code
           /\ (\A i \in 1..Len(CheckedFiles) :
                  ~FileHasViolation(cfg, CheckedFiles[i]))
              => (ret = 0 /\ exit_code = 0)

\* C8 witness: the supplied b.py and the unstaged a.py both contributed a
\* TODO of the current ticket, no supplied file has a violation, and
\* check_files returned 0 although succeed_always is unset
C8_Witness ==
    /\ CheckFilesDone /\ ~cfg.succeed_always
    /\ Supplied = <<pB>>
    /\ Tracked(pB, 1)
    /\ Tracked(pA, 3)
    /\ ret = 0

-----------------------------------------------------------------------------
(* C9 *)

\* C9: with a non-empty supplied list and check_unstaged set, a violation in
\* a supplied file is blocking (printed as ERROR unless quiet, exit_code 1,
\* returned unless succeed_always), a violation in a file that comes only
\* from the repository listing is advisory (printed as WARNING unless quiet),
\* and advisory violations never change the exit code
C9_StagedBlockingUnstagedAdvisory ==
    (CheckFilesDone /\ Supplied # <<>> /\ cfg.check_unstaged) =>
        /\ \A i \in 1..Len(CheckedFiles) :
              LET p == CheckedFiles[i] IN
              FileHasViolation(cfg, p) =>
                  IF InList(p, Supplied)
                  THEN /\ exit_code = 1
                       /\ ~cfg.succeed_always => ret = 1
                       /\ ~cfg.quiet => Printed("error", p)
                       /\ ~Printed("warning", p)
                  ELSE /\ ~cfg.quiet => Printed("warning", p)
                       /\ ~Printed("error", p)
        /\ exit_code = 1 <=> SuppliedViolation
        /\ ret = 1 <=> (SuppliedViolation /\ ~cfg.succeed_always)

\* C9 witness: a.py supplied, d.py found by the listing, both with a
\* violation: ERROR for a.py, WARNING for d.py, exit code 1
C9_Witness ==
    /\ CheckFilesDone /\ cfg.check_unstaged
    /\ Supplied = <<pA>>
    /\ Printed("error", pA)
    /\ Printed("warning", pD)
    /\ ret = 1

-----------------------------------------------------------------------------
(* C10 *)

-----------------------------------------------------------------------------
(* C11 *)

\* the k-th call of the sequence was check_files with no files
NoFilesCall(k) ==
    /\ history[k].op = "check_files"
    /\ history[k].file_paths = <<>>
    /\ ~cfg.check_unstaged

-----------------------------------------------------------------------------
(* C12 *)

\* C12: with no files supplied and check_unstaged set, every violation found
\* in the filtered repository listing is blocking: without succeed_always
\* check_files returns 1 when a listed file has a violation
C12_NoFilesListingIsBlocking ==
    (CheckFilesDone /\ Supplied = <<>> /\ cfg.check_unstaged
        /\ ~cfg.succeed_always) =>
        ((\E i \in 1..Len(CheckedFiles) :
             FileHasViolation(cfg, CheckedFiles[i]))
         => ret = 1)

-----------------------------------------------------------------------------
(* C13 *)

\* C13: in quiet mode check_files writes nothing to standard output,
\* whatever violations, advisory violations or ticket-tracked lines exist,
\* and the value returned still reflects the blocking violations
C13_QuietPrintsNothing ==
    (CheckFilesDone /\ cfg.quiet) =>
        /\ out = <<>>
        /\ exit_code = 1 <=> SuppliedViolation
        /\ ret = ReturnValue(cfg, exit_code)

\* C13 witness: quiet mode, a blocking violation in a.py, an advisory one in
\* d.py and recorded TODOs of the current ticket: nothing printed, 1 returned
C13_Witness ==
    /\ CheckFilesDone /\ cfg.quiet
    /\ Supplied = <<pA>>
    /\ InList(pD, CheckedFiles) /\ FileHasViolation(cfg, pD)
    /\ ticket_todos # <<>>
    /\ out = <<>>
    /\ ret = 1

-----------------------------------------------------------------------------
(* C14 *)

\* C14: in any sequence of check_files calls on one TodoChecker, the value a
\* call returns and the ticket-tracked lines it reports are those of the
\* same call on a freshly constructed checker: they depend only on the files
\* of that call, so a call on files without blocking violations returns 0
\* even after an earlier call that returned 1
C14_EachCallAsOnFreshChecker ==
    \A k \in 1..Len(history) :
        history[k].op = "check_files" =>
            \E fresh \in {CheckFilesOp(cfg, fs, SeqEnv, FreshFields,
                                       history[k].file_paths)} :
                /\ history[k].ret = fresh.ret
                /\ history[k].todos_after = fresh.ticket_todos
                /\ history[k].out = fresh.out

-----------------------------------------------------------------------------
(* C15 *)

\* the call ran the batch search on more than 3 different files and grep
\* succeeded
BatchSearchSucceeded ==
    /\ CheckFilesDone
    /\ Len(Supplied) > 3
    /\ \A i, j \in 1..Len(Supplied) : Supplied[i] = Supplied[j] => i = j
    /\ call.env.grep_runs
    /\ grepped = <<CheckedFiles>>
    /\ GrepReturnCode(cfg, fs, CheckedFiles) = 0

\* C15: for every list of more than 3 files, a check_files call whose batch
\* search succeeds produces the same per-file violations, the same
\* ticket_todos list and the same exit code as the call that scans each
\* file with check_file only
C15_BatchSearchEqualsPerFileScan ==
    BatchSearchSucceeded =>
        \E batch \in {CheckFilesOp(cfg, fs, call.env, FreshFields, Supplied)} :
        \E single \in {CheckFilesOp(cfg, fs,
                                    [call.env EXCEPT !.grep_runs = FALSE],
                                    FreshFields, Supplied)} :
            /\ batch.staged_violations = single.staged_violations
            /\ batch.unstaged_violations = single.unstaged_violations
            /\ exit_code = single.exit_code
            /\ ticket_todos = single.ticket_todos

-----------------------------------------------------------------------------
(* C16 *)

\* the ticket_todos entries the k-th call appended
Added(k) ==
    SubSeq(history[k].todos_after, Len(history[k].todos_before) + 1,
           Len(history[k].todos_after))

\* calls j and k are check_file on the same file, j before k
SameFileScannedTwice(j, k) ==
    /\ j < k
    /\ history[j].op = "check_file"
    /\ history[k].op = "check_file"
    /\ history[j].file_paths = history[k].file_paths

\* C16: scanning the same unchanged file twice with the same checker yields
\* the same violation list and the same ticket-tracked lines both times: the
\* second scan records no entry that the first did not produce, and every
\* entry the first produced
C16_SecondScanYieldsSameLines ==
    \A j, k \in 1..Len(history) :
        SameFileScannedTwice(j, k) =>
            /\ history[k].violations = history[j].violations
            /\ Added(k) = Added(j)
            /\ history[k].todos_after = history[k].todos_before \o Added(k)

\* C16 witness: a.py was scanned twice by a checker with a current ticket;
\* both scans returned its violation and produced its TODO of that ticket
C16_Witness ==
    /\ Len(history) = 2
    /\ SameFileScannedTwice(1, 2)
    /\ history[1].file_paths = <<pA>>
    /\ history[2].violations # <<>>
    /\ Added(1) # <<>>
    /\ Added(2) = Added(1)

-----------------------------------------------------------------------------
(* C17 *)

\* main has ended, by sys.exit or by an exception
MainEnded == proc.at \in {"exited", "raised"}

\* --quiet and --verbose are both given
ConflictingOptions == proc.args.quiet /\ proc.args.verbose

\* C17: whenever quiet and verbose are not both set, main constructs the
\* TodoChecker from the resolved configuration, runs check_files on the
\* supplied files and exits with the code check_files returns, 1 when a
\* supplied file has a violation and succeed_always is unset and 0
\* otherwise; it ends in no other way
C17_MainExitsWithCheckFilesCode ==
    (MainEnded /\ ~ConflictingOptions) =>
        /\ proc.at = "exited"
        /\ proc.events = <<"branch_detection", "construct", "check_files">>
        /\ proc.status = ret
        /\ proc.status =
              IF SuppliedViolation /\ ~proc.args.succeed_always
              THEN 1 ELSE 0

-----------------------------------------------------------------------------
(* C18 *)

\* C18: with --quiet and --verbose both given main exits with code 2 at the
\* validation: at that exit no branch detection and no construction of a
\* checker has happened, the repository was not listed and no file was read;
\* and main exits with code 2 in no other case
C18_ConfigErrorExitsBeforeScanning ==
    /\ (ConflictingOptions /\ proc.at \notin {"start", "resolved"}) =>
          /\ proc.at = "exited"
          /\ proc.status = 2
          /\ proc.events = <<>>
          /\ cfg = NoChecker
          /\ checked = <<>> /\ grepped = <<>> /\ listed = 0
    /\ (proc.at = "exited" /\ proc.status = 2) => ConflictingOptions

\* C18 witness: a.py, which has a violation, was supplied with --quiet and
\* --verbose; main printed the error and exited with code 2
C18_Witness ==
    /\ proc.at = "exited"
    /\ proc.status = 2
    /\ proc.args.files = <<pA>>
    /\ proc.err = <<MainErr("mutually_exclusive_error")>>
    /\ proc.events = <<>>

-----------------------------------------------------------------------------
(* C19 *)

\* the flag or variable gives a value: it is set and names a prefix
Gives(value) ==
    ~value.is_none /\ \E i \in 1..Len(value.value) : IsWord(value.value[i])

\* the prefixes a flag or variable names, in order
Named(value) ==
    LET words == SelectSeq(value.value, IsWord)
    IN Some([i \in 1..Len(words) |-> <<words[i]>>])

\* C19: the resolved ticket prefixes are those of -t if it gives a value,
\* else of -j, else of TICKET_PREFIX, else of JIRA_PREFIX, else none; the
\* resolved comment prefixes are those of -c, else of COMMENT_PREFIX, else
\* the default: a flag wins whatever the environment holds
C19_FlagOverEnvironmentOverDefault ==
    proc.at \notin {"none", "start"} =>
        LET a == proc.args
            e == proc.environ
        IN /\ proc.final_ticket_prefixes =
                IF Gives(a.ticket_prefix) THEN Named(a.ticket_prefix)
                ELSE IF Gives(a.jira_prefix) THEN Named(a.jira_prefix)
                ELSE IF Gives(e.TICKET_PREFIX) THEN Named(e.TICKET_PREFIX)
                ELSE IF Gives(e.JIRA_PREFIX) THEN Named(e.JIRA_PREFIX)
                ELSE None
           /\ proc.final_comment_prefixes =
                IF Gives(a.comment_prefix) THEN Named(a.comment_prefix)
                ELSE IF Gives(e.COMMENT_PREFIX) THEN Named(e.COMMENT_PREFIX)
                ELSE Some(DEFAULT_COMMENT_PREFIXES)

\* C19 witness: -t PROJ with TICKET_PREFIX and JIRA_PREFIX set resolves to
\* PROJ alone, and COMMENT_PREFIX without -c resolves to FIXME
C19_Witness ==
    /\ proc.at = "resolved"
    /\ proc.args.ticket_prefix = Some(<<"PROJ">>)
    /\ Gives(proc.environ.TICKET_PREFIX)
    /\ Gives(proc.environ.JIRA_PREFIX)
    /\ proc.final_ticket_prefixes = Some(<<<<"PROJ">>>>)
    /\ proc.args.comment_prefix = None
    /\ proc.final_comment_prefixes = Some(<<<<"FIXME">>>>)

-----------------------------------------------------------------------------
(* C20 *)

\* the path names no file
Missing(p) == ~fs[p].exists

\* a status line of verbose mode reports path p clean
ReportedClean(lines, p) ==
    \E i \in 1..Len(lines) :
        lines[i].kind = "status" /\ lines[i].path = p /\ lines[i].clean

\* C20: check_file on a path that does not exist returns no violation,
\* prints no warning and leaves ticket_todos and exit_code as they were; a
\* check_files call reports such a file clean, without a warning, and still
\* scans every other file of its list
C20_MissingFileIsSilentlyClean ==
    \A k \in 1..Len(history) :
        LET h == history[k] IN
        /\ (h.op = "check_file" /\ Missing(h.file_paths[1])) =>
              /\ h.violations = <<>>
              /\ h.err = <<>>
              /\ h.todos_after = h.todos_before
              /\ h.exit_after = h.exit_before
        /\ (h.op = "check_files" /\ h.file_paths # <<>>) =>
              \A i \in 1..Len(h.file_paths) :
                  /\ InList(h.file_paths[i], h.checked)
                  /\ Missing(h.file_paths[i]) =>
                        /\ ~InList(ReadWarning(h.file_paths[i]), h.err)
                        /\ cfg.verbose =>
                              ReportedClean(h.out, h.file_paths[i])

\* C20 witness: check_files on the missing g.py followed by a.py, in verbose
\* mode: g.py reported clean, a.py scanned and its violation returned as 1
C20_Witness ==
    /\ Len(history) = 1
    /\ history[1].op = "check_files"
    /\ history[1].file_paths = <<pG, pA>>
    /\ Missing(pG)
    /\ ReportedClean(history[1].out, pG)
    /\ history[1].checked = <<pG, pA>>
    /\ history[1].err = <<>>
    /\ history[1].ret = 1

-----------------------------------------------------------------------------
(* C21 *)

\* the file at path p exists and reading it fails part-way
Broken(p) == fs[p].exists /\ fs[p].read_error

\* C21: a file whose read fails contributes zero scanned lines to a
\* check_files call: a warning goes to stderr, no line of the file is
\* recorded in ticket_todos, the file alone does not set exit_code, and
\* every other file of the list is still scanned
C21_ReadFailureContributesNothing ==
    CheckFilesDone =>
        \A i \in 1..Len(Supplied) :
            Broken(Supplied[i]) =>
                /\ InList(ReadWarning(Supplied[i]), err)
                /\ \A n \in 1..Len(fs[Supplied[i]].lines) :
                       ~Tracked(Supplied[i], n)
                /\ (\A j \in 1..Len(Supplied) : Supplied[j] = Supplied[i]) =>
                       exit_code = 0
                /\ \A j \in 1..Len(Supplied) : Supplied[j] \in Scanned

-----------------------------------------------------------------------------
(* C22 *)

\* the batch search of the call failed: grep could not be run, or it exited
\* with a status other than 0
BatchSearchFailed ==
    \/ ~call.env.grep_runs
    \/ GrepReturnCode(cfg, fs, CheckedFiles) # 0

RECURSIVE TicketEntries(_, _, _)
\* the ticket-tracked lines of the file at path p, from line n on, as
\* ticket_todos entries
TicketEntries(c, p, n) ==
    IF n > Len(ScannedLines(fs[p])) THEN <<>>
    ELSE (IF IsTicketLine(c, ScannedLines(fs[p])[n])
          THEN <<<<p, n, RStrip(ScannedLines(fs[p])[n])>>>>
          ELSE <<>>)
         \o TicketEntries(c, p, n + 1)

RECURSIVE TicketEntriesOf(_, _)
\* the ticket-tracked lines of the files at the given paths, in order
TicketEntriesOf(c, paths) ==
    IF paths = <<>> THEN <<>>
    ELSE TicketEntries(c, Head(paths), 1) \o TicketEntriesOf(c, Tail(paths))

\* C22: check_files runs the batch search at most once, and only on more
\* than 3 files to check; when the search fails it returns the empty
\* mapping, leaves ticket_todos alone, and check_file then scans every file
\* once, in order
C22_BatchSearchOnceWithFallback ==
    CheckFilesDone =>
        /\ Len(grepped) <= 1
        /\ grepped # <<>> =>
              /\ Len(CheckedFiles) > 3
              /\ grepped[1] = CheckedFiles
        /\ (grepped # <<>> /\ BatchSearchFailed) =>
              /\ grep_results = EmptyDict
              /\ checked = CheckedFiles
              /\ ticket_todos = TicketEntriesOf(cfg, CheckedFiles)

\* C22 witness: two supplied files and two listed ones, one of them deleted:
\* grep exits 2, and check_file scans the four files and records the three
\* TODOs of ticket PROJ-1 once each
C22_Witness ==
    /\ CheckFilesDone
    /\ Supplied = <<pB, pA>>
    /\ CheckedFiles = <<pB, pA, pG, pD>>
    /\ call.env.grep_runs
    /\ grepped = <<CheckedFiles>>
    /\ BatchSearchFailed
    /\ checked = CheckedFiles
    /\ Len(ticket_todos) = 2

-----------------------------------------------------------------------------
(* C23 *)

\* what `git ls-files` printed for the call, when the call read it
Listing ==
    IF cfg.check_unstaged /\ ~call.env.ls.raises /\ call.env.ls.returncode = 0
    THEN call.env.ls.stdout
    ELSE <<>>

\* the supplied files in input order, then the discovered files in listing
\* order
FileOrder ==
    Supplied \o SelectSeq(Listing, LAMBDA f : ~RepoFileSkipped(f)
                                              /\ ~InList(f, Supplied))

\* the paths of the printed lines of the given kind, in printing order
PathsPrinted(kind) ==
    LET ls == SelectSeq(out, LAMBDA l : l.kind = kind)
    IN [i \in 1..Len(ls) |-> ls[i].path]

RECURSIVE Follows(_, _)
\* the paths of seq come in the order of the files of order, every file with
\* any number of lines
Follows(seq, order) ==
    IF seq = <<>> THEN TRUE
    ELSE IF order = <<>> THEN FALSE
    ELSE IF Head(seq) = Head(order) THEN Follows(Tail(seq), order)
    ELSE Follows(seq, Tail(order))

RECURSIVE SubSequence(_, _)
\* seq is order with some of its elements left out
SubSequence(seq, order) ==
    IF seq = <<>> THEN TRUE
    ELSE IF order = <<>> THEN FALSE
    ELSE IF Head(seq) = Head(order) THEN SubSequence(Tail(seq), Tail(order))
    ELSE SubSequence(seq, Tail(order))

\* C23: check_files processes and displays the supplied files in input
\* order, then the discovered files in listing order; every ERROR line is
\* printed before any WARNING line, and the status list of verbose mode
\* names the files in the same order
C23_SuppliedThenListedOrder ==
    (CheckFilesDone /\ ~(Supplied = <<>> /\ ~cfg.check_unstaged)) =>
        /\ SubSequence(checked, FileOrder)
        /\ grep_results = EmptyDict => checked = FileOrder
        /\ Follows(PathsPrinted("error"), Supplied)
        /\ Follows(PathsPrinted("warning"),
                   SubSeq(FileOrder, Len(Supplied) + 1, Len(FileOrder)))
        /\ \A i, j \in 1..Len(out) :
              (out[i].kind = "error"
                 /\ out[j].kind \in {"warning_header", "warning"}) => i < j
        /\ cfg.verbose => PathsPrinted("status") = FileOrder

\* C23 witness: b.py and a.py supplied, and d.py, a.py, g.py listed: the
\* status list names b.py, a.py, d.py, g.py, the ERROR of a.py comes before
\* the WARNINGs of d.py
C23_Witness ==
    /\ CheckFilesDone /\ cfg.verbose
    /\ Supplied = <<pB, pA>>
    /\ Listing = <<pD, pA, pG>>
    /\ PathsPrinted("status") = <<pB, pA, pD, pG>>
    /\ PathsPrinted("error") = <<pA>>
    /\ PathsPrinted("warning") = <<pD, pD>>

-----------------------------------------------------------------------------
(* C26 *)

\* get_all_repo_files has returned
ListingDone == pc = "done" /\ call.op = "get_all_repo_files"

\* the list get_all_repo_files returned
Returned == history[1].ret

\* `git ls-files` could not be run or exited with a status other than 0
ListingFailed == call.env.ls.raises \/ call.env.ls.returncode # 0

\* the listed paths no exclusion rule matches: a.py and src/setup.py; the
\* others are the empty string, an image (logo.png), a documentation file
\* (README.md), files of the tests/ and docs/ directories, a test file
\* (a_test.py) and the package file setup.py of the top directory
KeptPaths == {pA, pSubSetup}

\* C26: get_all_repo_files returns, in listing order, exactly the listed
\* paths that no exclusion rule matches, and the empty list when the
\* listing fails; check_files then scans the supplied files and no other
C26_ListingFilteredOrEmpty ==
    /\ ListingDone =>
          IF ListingFailed THEN Returned = <<>>
          ELSE Returned = SelectSeq(call.env.ls.stdout,
                                    LAMBDA f : f \in KeptPaths)
    /\ (CheckFilesDone /\ cfg.check_unstaged /\ ListingFailed) =>
          Scanned = {Supplied[i] : i \in 1..Len(Supplied)}

\* C26 witness: of the listed logo.png, src/setup.py and a.py, the last two
\* are returned
C26_Witness ==
    /\ ListingDone /\ ~ListingFailed
    /\ call.env.ls.stdout = <<pPng, pSubSetup, pA>>
    /\ Returned = <<pSubSetup, pA>>

-----------------------------------------------------------------------------
(* C25 *)

\* _extract_ticket_id has returned
ExtractDone == pc = "done" /\ call.op = "_extract_ticket_id"

\* <prefix>-<digit> stands at position i of the branch name b
OccursAt(b, prefix, i) ==
    /\ MatchAt(b, i, prefix \o <<"-">>)
    /\ i + Len(prefix) + 1 <= Len(b)
    /\ b[i + Len(prefix) + 1] \in DigitSyms

\* t is the occurrence of <prefix>-<digits> at position i of b, with all
\* the digits that stand there
IsOccurrence(t, b, prefix, i) ==
    /\ OccursAt(b, prefix, i)
    /\ Len(t) >= Len(prefix) + 2
    /\ MatchAt(b, i, t)
    /\ \A m \in (Len(prefix) + 2)..Len(t) : t[m] \in DigitSyms
    /\ i + Len(t) <= Len(b) => b[i + Len(t)] \notin DigitSyms

\* C25: _extract_ticket_id returns None for an empty branch name and for a
\* prefix list that is None or empty; otherwise the first <prefix>-<digits>
\* occurrence of the first prefix, in list order, that occurs anywhere in
\* the branch name, and None when no prefix occurs
C25_FirstPrefixFirstOccurrence ==
    ExtractDone =>
        LET b == call.branch_name
            ps == IF call.ticket_prefixes.is_none THEN <<>>
                  ELSE call.ticket_prefixes.value
            occurs(k) == \E i \in 1..Len(b) : OccursAt(b, ps[k], i)
        IN IF b = <<>> \/ ps = <<>> \/ ~\E k \in 1..Len(ps) : occurs(k)
           THEN ret = <<>>
           ELSE \E k \in 1..Len(ps) : \E i \in 1..Len(b) :
                   /\ \A j \in 1..(k - 1) : ~occurs(j)
                   /\ \A h \in 1..(i - 1) : ~OccursAt(b, ps[k], h)
                   /\ IsOccurrence(ret, b, ps[k], i)

\* C25 witness: in PROJ-12OTH-2 the prefix PROJ occurs first, and with the
\* prefixes OTH, PROJ the ticket of OTH is returned
C25_Witness ==
    /\ ExtractDone
    /\ call.branch_name = <<"PROJ", "-", "1", "2", "OTH", "-", "2">>
    /\ call.ticket_prefixes = Some(<<<<"OTH">>, <<"PROJ">>>>)
    /\ ret = <<"OTH", "-", "2">>

-----------------------------------------------------------------------------
(* C24 *)

\* main has passed the branch detection
BranchDetected == proc.at \in {"detected", "raised", "exited"}

\* the branch name carries no <prefix>-<digit> for a configured prefix
NoTicketInBranch ==
    \/ proc.branch_name.is_none
    \/ proc.final_ticket_prefixes.is_none
    \/ \A k \in 1..Len(proc.final_ticket_prefixes.value) :
          \A i \in 1..Len(proc.branch_name.value) :
              ~OccursAt(proc.branch_name.value,
                        proc.final_ticket_prefixes.value[k], i)

\* the checker main configures from the values it resolved and detected
ResolvedChecker ==
    TodoChecker(List(IF proc.final_ticket_prefixes.is_none THEN <<>>
                     ELSE proc.final_ticket_prefixes.value),
                Some(proc.final_comment_prefixes.value),
                proc.args.quiet, proc.args.verbose,
                proc.final_succeed_always, proc.current_ticket_id,
                proc.args.check_unstaged)

\* the file lists the checker is tried on
TrialLists == {<<pA>>, <<pB, pA>>, FourFiles}

\* C24: when the branch detection fails or the branch names no ticket of a
\* configured prefix, main goes on, not ended, with current_ticket_id unset;
\* a checker so configured records nothing in ticket_todos and prints no
\* ticket section, whatever the files
C24_NoTicketNoTracking ==
    (BranchDetected /\ (proc.branch_error \/ NoTicketInBranch)) =>
        /\ proc.current_ticket_id = <<>>
        /\ proc.at = "detected" => (proc.status = 0 /\ proc.exc = "none")
        /\ \A file_paths \in TrialLists :
              LET r == CheckFilesOp(ResolvedChecker, fs, SeqEnv, FreshFields,
                                    file_paths)
              IN /\ r.ticket_todos = <<>>
                 /\ \A i \in 1..Len(r.out) :
                       r.out[i].kind \notin {"ticket_header", "ticket"}

\* C24 witness: git could not be run, the prefix PROJ is configured and a.py,
\* which has a TODO of PROJ-1, is to be checked: no current ticket
C24_Witness ==
    /\ proc.at = "detected"
    /\ proc.branch_error
    /\ proc.final_ticket_prefixes = Some(<<<<"PROJ">>>>)
    /\ proc.args.files = <<pA>>
    /\ proc.current_ticket_id = <<>>
    /\ proc.branch_detection_msg = "branch_error"

-----------------------------------------------------------------------------
(* C27 *)

\* <prefix>-<digit> of a configured prefix stands in the line at the start
\* of a token: the symbol before the prefix, if any, is not a word symbol
HasTokenReference(c, line) ==
    \E k \in 1..Len(c.jira_prefixes) : \E i \in 1..Len(line) :
        /\ OccursAt(line, c.jira_prefixes[k], i)
        /\ (i = 1 \/ ~IsWord(line[i - 1]))

\* C27: a reference is valid only as a whole token: a comment line without
\* suppression marker in which no <prefix>-<digits> of a configured prefix
\* starts a token (the prefix is unconfigured, or is only the tail of a
\* longer token such as XPROJ-1) is returned as a violation by check_file
\* and by find_todos_with_grep
C27_TailOfTokenIsNoReference ==
    /\ CheckFileDone =>
          \A n \in 1..Len(LinesA) :
              (/\ IsCommentLine(cfg, LinesA[n])
               /\ ~IsSuppressed(LinesA[n])
               /\ ~HasTokenReference(cfg, LinesA[n]))
              => Reported(violations, n)
    /\ (GrepDone /\ call.env.grep_runs) =>
          \A n \in 1..Len(LinesA) :
              (/\ IsCommentLine(cfg, LinesA[n])
               /\ ~IsSuppressed(LinesA[n])
               /\ ~HasTokenReference(cfg, LinesA[n]))
              => Reported(GrepReported(pA), n)

-----------------------------------------------------------------------------
(* C28 *)

\* no path occurs twice in the list
Distinct(paths) ==
    \A i, j \in 1..Len(paths) : paths[i] = paths[j] => i = j

\* the number of ticket_todos entries for line n of path p
TimesTracked(p, n) ==
    Cardinality({k \in 1..Len(ticket_todos) :
                   ticket_todos[k][1] = p /\ ticket_todos[k][2] = n})

\* C28: within one check_files call on distinct paths, every ticket-tracked
\* line of a checked file is in ticket_todos exactly once, also when the
\* batch search ran and the file has no violation
C28_TrackedLineRecordedOnce ==
    (CheckFilesDone /\ Distinct(FileOrder)) =>
        \A i \in 1..Len(FileOrder) :
            \A n \in 1..Len(ScannedLines(fs[FileOrder[i]])) :
                IsTicketLine(cfg, ScannedLines(fs[FileOrder[i]])[n])
                => TimesTracked(FileOrder[i], n) = 1

-----------------------------------------------------------------------------
(* C29 *)

\* the (file, line number) pairs call h returned or printed as violations
ViolationPairs(h) ==
    CASE h.op = "check_file" ->
           {<<h.file_paths[1], h.violations[k][1]>> :
              k \in 1..Len(h.violations)}
      [] h.op = "find_todos_with_grep" ->
           UNION {{<<p, h.grep_results[p][k][1]>> :
                     k \in 1..Len(h.grep_results[p])} :
                  p \in DOMAIN h.grep_results}
      [] OTHER ->
           {<<h.out[k].path, h.out[k].num>> :
              k \in {x \in 1..Len(h.out) :
                       h.out[x].kind \in {"error", "warning"}}}

\* the (file, line number) pairs recorded in ticket_todos
TodoPairs ==
    {<<ticket_todos[k][1], ticket_todos[k][2]>> : k \in 1..Len(ticket_todos)}

\* C29: after any sequence of check_file, find_todos_with_grep and
\* check_files calls, no (file, line number) is both a violation of some
\* call and recorded in ticket_todos, and every ticket_todos entry is a line
\* of its file that has a valid ticket reference and contains
\* current_ticket_id
C29_ViolationsAndTicketTodosDisjoint ==
    /\ \A k \in 1..Len(history) :
          ViolationPairs(history[k]) \cap TodoPairs = {}
    /\ history # <<>> =>
          \A k \in 1..Len(ticket_todos) :
              LET t == ticket_todos[k] IN
              /\ t[2] \in 1..Len(fs[t[1]].lines)
              /\ t[3] = RStrip(fs[t[1]].lines[t[2]])
              /\ HasValidReference(cfg, fs[t[1]].lines[t[2]])
              /\ cfg.current_ticket_id # <<>>
              /\ Contains(fs[t[1]].lines[t[2]], cfg.current_ticket_id)

\* C29 witness: find_todos_with_grep on b.py and a.py, then check_file on
\* a.py: line 2 of a.py is a violation of both calls, line 3 of a.py and
\* line 1 of b.py are in ticket_todos
C29_Witness ==
    /\ Len(history) = 2
    /\ history[1].op = "find_todos_with_grep"
    /\ history[1].file_paths = <<pB, pA>>
    /\ history[2].op = "check_file"
    /\ ViolationPairs(history[1]) = {<<pA, 2>>}
    /\ ViolationPairs(history[2]) = {<<pA, 2>>}
    /\ TodoPairs = {<<pA, 3>>, <<pB, 1>>}

-----------------------------------------------------------------------------
(* C30 *)

\* the number of elements of the sequence s that satisfy Test
Count(s, Test(_)) == Cardinality({k \in 1..Len(s) : Test(s[k])})

\* C30: in one check_files call every path is scanned at most once and gets
\* exactly one status line, a supplied path gets no WARNING line, and no
\* violation line is printed twice, also when the supplied list or the
\* listing names a path more than once
C30_EveryPathCheckedOnce ==
    CheckFilesDone =>
        /\ \A k \in 1..Len(checked) :
              Count(checked, LAMBDA p : p = checked[k]) = 1
        /\ cfg.verbose =>
              \A k \in 1..Len(CheckedFiles) :
                  Count(out, LAMBDA l : l.kind = "status"
                                        /\ l.path = CheckedFiles[k]) = 1
        /\ \A k \in 1..Len(Supplied) : ~Printed("warning", Supplied[k])
        /\ \A i, j \in 1..Len(out) :
              (/\ out[i].kind \in {"error", "warning"}
               /\ out[j].kind \in {"error", "warning"}
               /\ out[i].path = out[j].path
               /\ out[i].num = out[j].num) => i = j

====
